---- MODULE Spec2Model ----
(***************************************************************************)
(* Model of the query layer of Git (src/src/git.cpp): the File-State Cache *)
(* (revsFiles, cacheNeedsUpdate), the Revision Store queries and the       *)
(* Reference Index lookups.  One action per public operation; every tool   *)
(* invocation an operation starts is recorded, with its outcome, in the    *)
(* call record `last`.                                                     *)
(*                                                                         *)
(* Specification Session models the repository switch of MainImpl          *)
(* (src/src/mainimpl.cpp) and the invocations of Git::run / Git::runAsync  *)
(* with the event loop running inside the blocking calls: operations that  *)
(* have not returned yet are the frames of `stack`.                        *)
(***************************************************************************)
EXTENDS Integers, Sequences, FiniteSets, TLC

VARIABLES
    revsFiles,              \* Git::revsFiles: cache key -> RevFile
    cacheNeedsUpdate,       \* Git::cacheNeedsUpdate
    errorReportingEnabled,  \* Git::errorReportingEnabled
    otherFilesCount,        \* workingDirInfo.otherFiles.count()
    refsShaMap,             \* Git::refsShaMap, in its enumeration order
    last,                   \* the operation that ran last: arguments, result, tool invocations
    tmpFiles,               \* the files qgit has written in gitDir and not removed
    setRepositoryBusy,      \* MainImpl::setRepositoryBusy
    curDir,                 \* MainImpl::curDir
    workDir,                \* Git::workDir
    repoDir,                \* the directory of the repository Git::init was last called for
    stack,                  \* the blocking calls that have not returned, innermost last
    procs,                  \* the MyProcess objects alive: id -> directory, reporting mode, ...
    nextId,                 \* the id of the next MyProcess
    handles,                \* the MyProcess* that callers of runAsync hold
    exExiting,              \* the exception exExiting is raised and pending
    globalActions,          \* ActRefresh, ActCheckWorkDir, ActViewRev, rv are enabled
    commitEnabled,          \* ActCommit is enabled
    statusMsg,              \* the message of the status bar
    initState,              \* the most recent Git::init: none, running, ok, failed, unwound
    touchedReleased,        \* a method was called on a MyProcess that is deleted
    window                  \* the main window: hidden, its close timer, its views, closed

sessionVars ==
    <<setRepositoryBusy, curDir, workDir, repoDir, stack, procs, nextId, handles, exExiting,
      globalActions, commitEnabled, statusMsg, initState, touchedReleased, window>>

vars ==
    <<revsFiles, cacheNeedsUpdate, errorReportingEnabled, otherFilesCount, refsShaMap, last,
      tmpFiles,
      setRepositoryBusy, curDir, workDir, repoDir, stack, procs, nextId, handles, exExiting,
      globalActions, commitEnabled, statusMsg, initState, touchedReleased, window>>

(***************************************************************************)
(* Bounds                                                                  *)
(***************************************************************************)
\* how many of the candidate tool outputs the external tool can produce
NumOutputs == 2

\* how many names (tags, branches, remote branches, other refs) one identifier has
MaxNames == 1

\* how many MyProcess objects are created in a session
MaxProcs == 2

\* how many blocking calls are nested
MaxDepth == 2

\* the tool invocations of one commit, counted to choose the one that fails
MaxRuns == 9

\* how many pieces a file name is made of
MaxPieces == 3

\* how many revisions are dropped at once
MaxRevs == 3

(***************************************************************************)
(* Pointers: a pointer result is a set, empty for NULL                     *)
(***************************************************************************)
NULL == {}

Ptr(x) == {x}

Deref(p) == CHOOSE x \in p : TRUE

(***************************************************************************)
(* Revision Store: the loaded revisions (revData->revs, revData->revOrder) *)
(***************************************************************************)
ZERO_SHA == "0000"

CUSTOM_SHA == "CUSTOM"

ALL_MERGE_FILES == "ALL_MERGE_FILES"

\* lane types (lanes.h)
EMPTY == "EMPTY"
ACTIVE == "ACTIVE"
NOT_ACTIVE == "NOT_ACTIVE"
MERGE_FORK == "MERGE_FORK"
HEAD_R == "HEAD_R"
INITIAL == "INITIAL"
JOIN == "JOIN"
CROSS == "CROSS"

isHead(x) == x \in {"HEAD", "HEAD_R", "HEAD_L"}

isJoin(x) == x \in {"JOIN", "JOIN_R", "JOIN_L"}

isBoundary(x) == x \in {"BOUNDARY", "BOUNDARY_C", "BOUNDARY_R", "BOUNDARY_L"}

isMerge(x) == x \in {"MERGE_FORK", "MERGE_FORK_R", "MERGE_FORK_L"} \/ isBoundary(x)

isFreeLane(x) == x \in {NOT_ACTIVE, CROSS} \/ isJoin(x)

\* History 0000 -> m -> b -> a, loaded newest first; m is a merge of b and c,
\* and c is not loaded.  orderIdx and the index vectors are 0-based,
\* as in the code.
revOrder == <<ZERO_SHA, "m", "b", "a">>

Revs ==
    ( ZERO_SHA :> [sha |-> ZERO_SHA, parents |-> <<"m">>, orderIdx |-> 0, childs |-> <<>>,
                   shortLog |-> "Working dir changes", lanes |-> <<ACTIVE>>,
                   isDiffCache |-> TRUE, isApplied |-> FALSE, isUnApplied |-> FALSE,
                   descBrnMaster |-> -1, descBranches |-> <<>>,
                   ancRefsMaster |-> 1, ancRefs |-> <<>>,
                   descRefsMaster |-> -1, descRefs |-> <<>>] )
 @@ ( "m" :> [sha |-> "m", parents |-> <<"b", "c">>, orderIdx |-> 1, childs |-> <<0>>,
              shortLog |-> "merge c", lanes |-> <<MERGE_FORK, HEAD_R>>,
              isDiffCache |-> FALSE, isApplied |-> FALSE, isUnApplied |-> FALSE,
              descBrnMaster |-> -1, descBranches |-> <<>>,
              ancRefsMaster |-> 1, ancRefs |-> <<2>>,
              descRefsMaster |-> -1, descRefs |-> <<>>] )
 @@ ( "b" :> [sha |-> "b", parents |-> <<"a">>, orderIdx |-> 2, childs |-> <<1>>,
              shortLog |-> "second", lanes |-> <<ACTIVE, NOT_ACTIVE>>,
              isDiffCache |-> FALSE, isApplied |-> FALSE, isUnApplied |-> FALSE,
              descBrnMaster |-> 2, descBranches |-> <<1>>,
              ancRefsMaster |-> -1, ancRefs |-> <<>>,
              descRefsMaster |-> -1, descRefs |-> <<>>] )
 @@ ( "a" :> [sha |-> "a", parents |-> <<>>, orderIdx |-> 3, childs |-> <<2>>,
              shortLog |-> "first", lanes |-> <<INITIAL, NOT_ACTIVE>>,
              isDiffCache |-> FALSE, isApplied |-> FALSE, isUnApplied |-> FALSE,
              descBrnMaster |-> 2, descBranches |-> <<>>,
              ancRefsMaster |-> -1, ancRefs |-> <<>>,
              descRefsMaster |-> 3, descRefs |-> <<2>>] )

\* the revisions of a file history (FileHistory::revs), a part of the loaded ones
FileHistoryRevs == {"b", "a"}

\* identifiers a caller can pass: the loaded ones, one that is not loaded, the empty one
Shas == {ZERO_SHA, "m", "b", "a", "c", ""}

\* the store a look-up is made in: the file history's, or the repository's
StoreOf(fh) == IF fh THEN FileHistoryRevs ELSE DOMAIN Revs

\* a plausible slip: the file history is not looked at
revLookupMain(sha, fh) ==
    IF sha # "" /\ sha \in DOMAIN Revs THEN Ptr(Revs[sha]) ELSE NULL

\* Git::revLookup: QHash::value() of the identifier, NULL for the empty one
revLookup(sha, fh) ==
    LET r == StoreOf(fh)
    IN  IF sha # "" /\ sha \in r THEN Ptr(Revs[sha]) ELSE NULL

parentsCount(r) == Len(r.parents)

(***************************************************************************)
(* The external tool: an invocation ends with success and an output, or    *)
(* fails                                                                   *)
(***************************************************************************)
CandidateOutputs == << <<"M">>, <<"A">>, <<>>, <<"M", "D">> >>

\* the outputs of a diff: one status letter per changed file
DiffOutputs == {CandidateOutputs[i] : i \in 1..NumOutputs}

Outcomes == [ok : {TRUE}, out : DiffOutputs] \cup {[ok |-> FALSE, out |-> <<>>]}

\* Git::run: one synchronous invocation of cmd, reporting errors as
\* errorReportingEnabled says when it starts
run(cmd, report, o) == [cmd |-> cmd, report |-> report, ok |-> o.ok, out |-> o.out]

\* QString::replace("git diff-tree", "git diff-tree -C") on the command's words
RECURSIVE replaceDiffTree(_)
replaceDiffTree(cmd) ==
    IF Len(cmd) < 2 THEN cmd
    ELSE IF cmd[1] = "git" /\ cmd[2] = "diff-tree"
         THEN <<"git", "diff-tree", "-C">> \o replaceDiffTree(SubSeq(cmd, 3, Len(cmd)))
         ELSE <<cmd[1]>> \o replaceDiffTree(Tail(cmd))

\* a plausible slip: the retry is left out
runDiffTreeNoRetry(runCmd, o1, o2) ==
    [ok |-> o1.ok, out |-> o1.out, log |-> <<run(replaceDiffTree(runCmd), FALSE, o1)>>]

\* Git::runDiffTreeWithRenameDetection; o1 and o2 are the outcomes of the first
\* invocation and of the retry, log the invocations started
runDiffTreeWithRenameDetection(runCmd, o1, o2) ==
    LET cmd   == replaceDiffTree(runCmd)
        first == run(cmd, FALSE, o1)
    IN  IF ~o1.ok
        THEN [ok |-> o2.ok, out |-> o2.out, log |-> <<first, run(runCmd, TRUE, o2)>>]
        ELSE [ok |-> TRUE, out |-> o1.out, log |-> <<first>>]

(***************************************************************************)
(* File-State Cache                                                        *)
(***************************************************************************)
\* toTempSha / toPersistentSha: the key of a string is its bytes; the key of
\* ALL_MERGE_FILES + sha is the two strings in a row
ShaKey(sha) == <<sha>>

AllMergeKey(sha) == <<ALL_MERGE_FILES, sha>>

contains(files, key) == key \in DOMAIN files

\* parseDiffFormat: one file entry per status letter of the output
statusOf(letter) ==
    CASE letter = "M" -> "MODIFIED"
      [] letter = "A" -> "NEW"
      [] letter = "D" -> "DELETED"
      [] OTHER        -> "UNKNOWN"

parseDiffFormat(data) == [i \in 1..Len(data) |-> statusOf(data[i])]

\* QHash::insert: adds the key or replaces its value
hashInsert(files, key, rf) ==
    [k \in (DOMAIN files) \cup {key} |-> IF k = key THEN rf ELSE files[k]]

\* Git::insertNewFiles on cache `files`: the new cache and the new RevFile
insertNewFiles(files, key, data) ==
    LET rf == parseDiffFormat(data)
    IN  [files |-> hashInsert(files, key, rf), rf |-> Ptr(rf)]

\* the result of an operation on the cache: what it returns, the cache and the
\* flags after it, and the invocations it started
Result(ret, files, cnu, ere, log) ==
    [ret |-> ret, files |-> files, cnu |-> cnu, ere |-> ere, log |-> log]

Unchanged(ret) == Result(ret, revsFiles, cacheNeedsUpdate, errorReportingEnabled, <<>>)

\* a plausible slip: the combined diff is stored under the commit's own key
getAllMergeFilesOwnKey(r, o1, o2) ==
    LET mySha  == ShaKey(r.sha)
        runCmd == <<"git", "diff-tree", "--no-color", "-r", "-m", r.sha>>
        d      == runDiffTreeWithRenameDetection(runCmd, o1, o2)
        ins    == insertNewFiles(revsFiles, mySha, d.out)
    IN  IF contains(revsFiles, mySha) THEN Unchanged(Ptr(revsFiles[mySha]))
        ELSE IF ~d.ok THEN Result(NULL, revsFiles, cacheNeedsUpdate, TRUE, d.log)
        ELSE Result(ins.rf, ins.files, cacheNeedsUpdate, TRUE, d.log)

\* Git::getAllMergeFiles
getAllMergeFiles(r, o1, o2) ==
    LET mySha  == AllMergeKey(r.sha)
        runCmd == <<"git", "diff-tree", "--no-color", "-r", "-m", r.sha>>
        d      == runDiffTreeWithRenameDetection(runCmd, o1, o2)
        ins    == insertNewFiles(revsFiles, mySha, d.out)
    IN  IF contains(revsFiles, mySha) THEN Unchanged(Ptr(revsFiles[mySha]))
        ELSE IF ~d.ok THEN Result(NULL, revsFiles, cacheNeedsUpdate, TRUE, d.log)
        ELSE Result(ins.rf, ins.files, cacheNeedsUpdate, TRUE, d.log)

\* a plausible slip: the pairwise diff is stored under the commit's key
getFilesPairwiseOwnKey(sha, diffToSha, path, o1, o2) ==
    LET runCmd == <<"git", "diff-tree", "--no-color", "-r", "-m", diffToSha, sha>>
                  \o (IF path # "" THEN <<path>> ELSE <<>>)
        d      == runDiffTreeWithRenameDetection(runCmd, o1, o2)
        ins    == insertNewFiles(revsFiles, ShaKey(sha), d.out)
    IN  IF ~d.ok THEN Result(NULL, revsFiles, cacheNeedsUpdate, TRUE, d.log)
        ELSE Result(ins.rf, ins.files, cacheNeedsUpdate, TRUE, d.log)

\* Git::getFiles, the branch of a diff against diffToSha
getFilesPairwise(sha, diffToSha, path, o1, o2) ==
    LET runCmd == <<"git", "diff-tree", "--no-color", "-r", "-m", diffToSha, sha>>
                  \o (IF path # "" THEN <<path>> ELSE <<>>)
        d      == runDiffTreeWithRenameDetection(runCmd, o1, o2)
        ins    == insertNewFiles(revsFiles, ShaKey(CUSTOM_SHA), d.out)
    IN  IF ~d.ok THEN Result(NULL, revsFiles, cacheNeedsUpdate, TRUE, d.log)
        ELSE Result(ins.rf, ins.files, cacheNeedsUpdate, TRUE, d.log)

\* a plausible slip: the look-up of the cache is left out
getFilesOfCommitNoLookup(r, sha, o1, o2) ==
    LET runCmd == <<"git", "diff-tree", "--no-color", "-r", "-c", sha>>
        d      == runDiffTreeWithRenameDetection(runCmd, o1, o2)
        ins    == insertNewFiles(revsFiles, ShaKey(sha), d.out)
    IN  IF sha = ZERO_SHA THEN Unchanged(NULL)
        ELSE IF ~d.ok THEN Result(NULL, revsFiles, cacheNeedsUpdate, TRUE, d.log)
        ELSE Result(ins.rf, ins.files, TRUE, TRUE, d.log)

\* a plausible slip: the working directory is not told apart from a commit
getFilesOfCommitNoZero(r, sha, o1, o2) ==
    LET runCmd == <<"git", "diff-tree", "--no-color", "-r", "-c", sha>>
        d      == runDiffTreeWithRenameDetection(runCmd, o1, o2)
        ins    == insertNewFiles(revsFiles, ShaKey(sha), d.out)
    IN  IF contains(revsFiles, ShaKey(r.sha)) THEN Unchanged(Ptr(revsFiles[ShaKey(r.sha)]))
        ELSE IF ~d.ok THEN Result(NULL, revsFiles, cacheNeedsUpdate, TRUE, d.log)
        ELSE Result(ins.rf, ins.files, TRUE, TRUE, d.log)

\* Git::getFiles, the branch of a commit's own file set.  The second look-up
\* (after the tool has run) finds what the first did not only if the entry was
\* created while the tool ran; within one uninterrupted call it was not.
getFilesOfCommit(r, sha, o1, o2) ==
    LET runCmd == <<"git", "diff-tree", "--no-color", "-r", "-c", sha>>
        d      == runDiffTreeWithRenameDetection(runCmd, o1, o2)
        ins    == insertNewFiles(revsFiles, ShaKey(sha), d.out)
    IN  IF contains(revsFiles, ShaKey(r.sha)) THEN Unchanged(Ptr(revsFiles[ShaKey(r.sha)]))
        ELSE IF sha = ZERO_SHA THEN Unchanged(NULL)
        ELSE IF ~d.ok THEN Result(NULL, revsFiles, cacheNeedsUpdate, TRUE, d.log)
        ELSE Result(ins.rf, ins.files, TRUE, TRUE, d.log)

\* Git::getFiles
getFiles(sha, diffToSha, allFiles, path, o1, o2) ==
    LET rp == revLookup(sha, FALSE)
        r  == Deref(rp)
    IN  IF rp = NULL THEN Unchanged(NULL)
        ELSE IF parentsCount(r) = 0 THEN Unchanged(NULL)
        ELSE IF parentsCount(r) > 1 /\ diffToSha = "" /\ allFiles
             THEN getAllMergeFiles(r, o1, o2)
        ELSE IF diffToSha # "" /\ sha # ZERO_SHA
             THEN getFilesPairwise(sha, diffToSha, path, o1, o2)
        ELSE getFilesOfCommit(r, sha, o1, o2)

(***************************************************************************)
(* Predicates over the cache                                               *)
(***************************************************************************)
\* RevFile::statusCmp
statusCmp(f, i, sf) == sf = "ANY" \/ f[i] = sf

\* Git::getWorkDirFiles: the indexes of the working directory files with the status
getWorkDirFiles(status, o1, o2) ==
    LET g == getFiles(ZERO_SHA, "", FALSE, "", o1, o2)
        f == Deref(g.ret)
    IN  Result(IF g.ret = NULL THEN {} ELSE {i \in DOMAIN f : statusCmp(f, i, status)},
               g.files, g.cnu, g.ere, g.log)

\* Git::isNothingToCommit
isNothingToCommit ==
    IF ~contains(revsFiles, ShaKey(ZERO_SHA)) THEN TRUE
    ELSE Len(revsFiles[ShaKey(ZERO_SHA)]) = otherFilesCount

\* the loop of Git::isTreeModified over a file set
anyNotModified(f) == \E i \in DOMAIN f : ~statusCmp(f, i, "MODIFIED")

\* a plausible slip: the file set asked for is that of all the merge parents
isTreeModifiedAllFiles(sha, o1, o2) ==
    LET g == getFiles(sha, "", TRUE, "", o1, o2)
    IN  Result(IF g.ret = NULL THEN TRUE ELSE anyNotModified(Deref(g.ret)),
               g.files, g.cnu, g.ere, g.log)

\* Git::isTreeModified
isTreeModified(sha, o1, o2) ==
    LET g == getFiles(sha, "", FALSE, "", o1, o2)
    IN  Result(IF g.ret = NULL THEN TRUE ELSE anyNotModified(Deref(g.ret)),
               g.files, g.cnu, g.ere, g.log)

\* Git::isParentOf
isParentOf(par, child) ==
    LET c == revLookup(child, FALSE)
    IN  c # NULL /\ parentsCount(Deref(c)) = 1 /\ Deref(c).parents[1] = par

\* Git::isSameFiles
isSameFiles(tree1Sha, tree2Sha, o1, o2) ==
    LET t2 == isTreeModified(tree2Sha, o1, o2)
        t1 == isTreeModified(tree1Sha, o1, o2)
        runCmd == <<"git", "diff-tree", "--no-color", "-r", tree1Sha, tree2Sha>>
        inv == run(runCmd, errorReportingEnabled, o1)
        isChanged == \E i \in DOMAIN o1.out : o1.out[i] \in {"A", "D"}
    IN  IF isParentOf(tree1Sha, tree2Sha) THEN [t2 EXCEPT !.ret = ~t2.ret]
        ELSE IF isParentOf(tree2Sha, tree1Sha) THEN [t1 EXCEPT !.ret = ~t1.ret]
        ELSE Result(IF ~o1.ok THEN FALSE ELSE ~isChanged,
                    revsFiles, cacheNeedsUpdate, errorReportingEnabled, <<inv>>)

(***************************************************************************)
(* Reference Index                                                         *)
(***************************************************************************)
\* reference kinds (Git::RefType)
TAG == "TAG"
BRANCH == "BRANCH"
RMT_BRANCH == "RMT_BRANCH"
CUR_BRANCH == "CUR_BRANCH"
REF == "REF"
APPLIED == "APPLIED"
UN_APPLIED == "UN_APPLIED"
ANY_REF == "ANY_REF"

\* the kinds a mask stands for
maskOf(type) ==
    IF type = ANY_REF THEN {TAG, BRANCH, RMT_BRANCH, CUR_BRANCH, REF, APPLIED, UN_APPLIED}
    ELSE {type}

\* struct Reference, with the identifier it is stored under; an entry without a
\* patch has the empty stgitPatch
Reference(sha, type, tags, branches, remoteBranches, refs, stgitPatch) ==
    [sha |-> sha, type |-> type, tags |-> tags, branches |-> branches,
     remoteBranches |-> remoteBranches, refs |-> refs, stgitPatch |-> stgitPatch]

\* QHash::find on refsShaMap: the position of the entry, 0 for end()
refsFind(map, sha) ==
    IF \E i \in DOMAIN map : map[i].sha = sha
    THEN CHOOSE i \in DOMAIN map : map[i].sha = sha
    ELSE 0

\* QStringList::contains
listContains(list, nm) == \E i \in DOMAIN list : list[i] = nm

\* Git::checkRef: the kinds of the identifier's references that are in the mask
checkRef(sha, mask) ==
    LET it == refsFind(refsShaMap, sha)
    IN  IF it # 0 THEN refsShaMap[it].type \cap mask ELSE {}

\* Git::getRefName
getRefName(sha, type) ==
    LET rf == refsShaMap[refsFind(refsShaMap, sha)]
    IN  IF checkRef(sha, maskOf(type)) = {} THEN <<>>
        ELSE IF type = TAG THEN rf.tags
        ELSE IF type = BRANCH THEN rf.branches
        ELSE IF type = RMT_BRANCH THEN rf.remoteBranches
        ELSE IF type = REF THEN rf.refs
        ELSE IF type = APPLIED \/ type = UN_APPLIED THEN <<rf.stgitPatch>>
        ELSE <<>>

\* Git::getAllRefSha
getAllRefSha(mask) ==
    LET hit == SelectSeq(refsShaMap, LAMBDA rf : rf.type \cap mask # {})
    IN  [i \in DOMAIN hit |-> hit[i].sha]

\* a plausible slip: the kind asked for is not looked at
refMatchesAnyKind(rf, refName, type) ==
    \/ listContains(rf.tags, refName)
    \/ listContains(rf.branches, refName)
    \/ listContains(rf.remoteBranches, refName)
    \/ listContains(rf.refs, refName)
    \/ rf.stgitPatch = refName

\* the body of the loop of Git::getRefSha: the entry carries refName under the kind
refMatches(rf, refName, type) ==
    LET any == (type = ANY_REF)
    IN  \/ (any \/ type = TAG) /\ listContains(rf.tags, refName)
        \/ (any \/ type = BRANCH) /\ listContains(rf.branches, refName)
        \/ (any \/ type = RMT_BRANCH) /\ listContains(rf.remoteBranches, refName)
        \/ (any \/ type = REF) /\ listContains(rf.refs, refName)
        \/ (any \/ type = APPLIED \/ type = UN_APPLIED) /\ rf.stgitPatch = refName

\* QString::trimmed of an output of words and line ends: the word, if any
trimmed(out) ==
    LET words == SelectSeq(out, LAMBDA w : w \notin {" ", "\n"})
    IN  IF words = <<>> THEN "" ELSE words[1]

\* Git::getRefSha; o is the outcome of 'git rev-parse', run when no entry matches
\* and askGit is set
getRefSha(refName, type, askGit, o) ==
    LET hits == {i \in DOMAIN refsShaMap : refMatches(refsShaMap[i], refName, type)}
        first == CHOOSE i \in hits : \A j \in hits : i <= j
        inv == run(<<"git", "rev-parse", "--revs-only", refName>>, FALSE, o)
    IN  IF hits # {} THEN Unchanged(refsShaMap[first].sha)
        ELSE IF ~askGit THEN Unchanged("")
        ELSE Result(IF o.ok THEN trimmed(o.out) ELSE "",
                    revsFiles, cacheNeedsUpdate, TRUE, <<inv>>)

\* Git::isPatchName
isPatchName(nm) ==
    IF getRefSha(nm, UN_APPLIED, FALSE, [ok |-> FALSE, out |-> <<>>]).ret # "" THEN TRUE
    ELSE getRefSha(nm, APPLIED, FALSE, [ok |-> FALSE, out |-> <<>>]).ret # ""

(***************************************************************************)
(* Revision Store queries                                                  *)
(***************************************************************************)
\* QString::arg(n, 6) followed by a blank: the decimal digits of n, padded on the
\* left with blanks to six characters; a character is its Latin-1 code
RECURSIVE digits(_)
digits(n) == IF n < 10 THEN <<48 + n>> ELSE digits(n \div 10) \o <<48 + (n % 10)>>

caption(n) ==
    LET d == digits(n)
    IN  [i \in 1..(IF Len(d) < 6 THEN 6 - Len(d) ELSE 0) |-> 32] \o d \o <<32>>

\* operator< of QString on the captions
RECURSIVE lexLess(_, _)
lexLess(s, t) ==
    IF t = <<>> THEN FALSE
    ELSE IF s = <<>> THEN TRUE
    ELSE IF s[1] # t[1] THEN s[1] < t[1]
    ELSE lexLess(Tail(s), Tail(t))

\* QStringList::sort of captioned names
RECURSIVE sortInsert(_, _)
sortInsert(e, sorted) ==
    IF sorted = <<>> THEN <<e>>
    ELSE IF lexLess(e.cap, sorted[1].cap) THEN <<e>> \o sorted
    ELSE <<sorted[1]>> \o sortInsert(e, Tail(sorted))

RECURSIVE sortCaptioned(_)
sortCaptioned(list) ==
    IF list = <<>> THEN <<>> ELSE sortInsert(list[1], sortCaptioned(Tail(list)))

\* section(' ', -1, -1): what follows the last blank, the name
stripIdx(list) == [i \in DOMAIN list |-> list[i].name]

\* Git::getChilds
getChilds(parent) ==
    LET rp == revLookup(parent, FALSE)
        r  == Deref(rp)
        childs == [i \in DOMAIN r.childs |-> revOrder[r.childs[i] + 1]]
        capped == [i \in DOMAIN childs |->
                     [cap |-> caption(Deref(revLookup(childs[i], FALSE)).orderIdx),
                      name |-> childs[i]]]
    IN  IF rp = NULL THEN <<>> ELSE stripIdx(sortCaptioned(capped))

\* the inner loop of Git::getLaneParent: from lane laneNum of row r to the left, up
\* to the node of the row, counting the heads passed
RECURSIVE laneParentNum(_, _, _)
laneParentNum(r, laneNum, parNum) ==
    LET type == r.lanes[laneNum + 1]
    IN  IF isMerge(type) \/ type = ACTIVE THEN parNum
        ELSE laneParentNum(r, laneNum - 1, IF isHead(type) THEN parNum + 1 ELSE parNum)

\* the outer loop of Git::getLaneParent, from row idx upwards
RECURSIVE laneParentFrom(_, _)
laneParentFrom(idx, laneNum) ==
    LET r == Revs[revOrder[idx + 1]]
    IN  IF idx < 0 THEN ""
        ELSE IF laneNum >= Len(r.lanes) THEN ""
        ELSE IF ~isFreeLane(r.lanes[laneNum + 1])
             THEN r.parents[laneParentNum(r, laneNum, 0) + 1]
        ELSE laneParentFrom(idx - 1, laneNum)

\* Git::getLaneParent
getLaneParent(fromSHA, laneNum) ==
    LET rs == revLookup(fromSHA, FALSE)
    IN  IF rs = NULL THEN "" ELSE laneParentFrom(Deref(rs).orderIdx - 1, laneNum)

\* Git::getShortLog
getShortLog(sha) ==
    LET r == revLookup(sha, FALSE)
    IN  IF r = NULL THEN "" ELSE Deref(r).shortLog

\* one round of the loop of Git::getDescendantBranches
descBranchNames(sha, shaOnly) ==
    LET it == refsFind(refsShaMap, sha)
        rf == refsShaMap[it]
    IN  IF shaOnly THEN <<sha>>
        ELSE IF it = 0 THEN <<>>
        ELSE (IF rf.branches # <<>> THEN <<[names |-> rf.branches, cap |-> sha]>> ELSE <<>>)
             \o (IF rf.remoteBranches # <<>>
                 THEN <<[names |-> rf.remoteBranches, cap |-> sha]>> ELSE <<>>)

RECURSIVE concatAll(_)
concatAll(lists) == IF lists = <<>> THEN <<>> ELSE lists[1] \o concatAll(Tail(lists))

\* Git::getDescendantBranches
getDescendantBranches(sha, shaOnly) ==
    LET rp == revLookup(sha, FALSE)
        r  == Deref(rp)
        nr == Revs[revOrder[r.descBrnMaster + 1]].descBranches
    IN  IF rp = NULL THEN <<>>
        ELSE IF r.descBrnMaster = -1 THEN <<>>
        ELSE concatAll([i \in DOMAIN nr |-> descBranchNames(revOrder[nr[i] + 1], shaOnly)])

\* one round of the loop of Git::getNearTags
nearTagNames(sha) ==
    LET it == refsFind(refsShaMap, sha)
    IN  IF it # 0 THEN <<[names |-> refsShaMap[it].tags, cap |-> sha]>> ELSE <<>>

\* Git::getNearTags
getNearTags(goDown, sha) ==
    LET rp == revLookup(sha, FALSE)
        r  == Deref(rp)
        nearRefsMaster == IF goDown THEN r.descRefsMaster ELSE r.ancRefsMaster
        m  == Revs[revOrder[nearRefsMaster + 1]]
        nr == IF goDown THEN m.descRefs ELSE m.ancRefs
    IN  IF rp = NULL THEN <<>>
        ELSE IF nearRefsMaster = -1 THEN <<>>
        ELSE concatAll([i \in DOMAIN nr |-> nearTagNames(revOrder[nr[i] + 1])])

\* Git::getDesc: the text of the description, empty for no text; the description
\* of a commit is rendered from its parents, children, branches and diff, and
\* the diff is one synchronous invocation
getDesc(sha, fh, o) ==
    LET cp == revLookup(sha, fh)
        c  == Deref(cp)
        inv == run(<<"git", "diff-tree", "--find-renames", "-p", sha>>,
                   errorReportingEnabled, o)
    IN  IF sha = "" THEN Unchanged(<<>>)
        ELSE IF cp = NULL THEN Unchanged(<<>>)
        ELSE IF c.isDiffCache THEN Unchanged(<<"plain", c.shortLog>>)
        ELSE Result(<<"html", c.parents, getChilds(sha), getDescendantBranches(sha, FALSE)>>,
                    revsFiles, cacheNeedsUpdate, errorReportingEnabled, <<inv>>)

(***************************************************************************)
(* Actions                                                                 *)
(***************************************************************************)
NoCall == [op |-> "none", args |-> [sha |-> ""], ret |-> NULL, log |-> <<>>]

\* An operation is called from the event loop, when no other is running; the call
\* record keeps what it was given, what it returned and the invocations it started.
Idle == last.op = "none"

Apply(op, args, res) ==
    /\ Idle
    /\ revsFiles' = res.files
    /\ cacheNeedsUpdate' = res.cnu
    /\ errorReportingEnabled' = res.ere
    /\ last' = [op |-> op, args |-> args, ret |-> res.ret, log |-> res.log]
    /\ UNCHANGED <<otherFilesCount, refsShaMap, tmpFiles>>
    /\ UNCHANGED sessionVars

Paths == {"", "src"}

\* the outcomes of the (at most two) invocations of one call; the second is
\* looked at only when the first failed
OutcomePairs == {p \in Outcomes \X Outcomes : p[1].ok => p[2] = p[1]}

\* the tree diffs the cache asks for
DiffTreeCmds ==
    { <<"git", "diff-tree", "--no-color", "-r", "-c", "b">>,
      <<"git", "diff-tree", "--no-color", "-r", "-m", "m">>,
      <<"git", "diff-tree", "--no-color", "-r", "-m", "a", "m", "src">> }

DoRunDiffTree ==
    \E runCmd \in DiffTreeCmds, o \in OutcomePairs :
        LET d == runDiffTreeWithRenameDetection(runCmd, o[1], o[2])
        IN  Apply("runDiffTreeWithRenameDetection", [runCmd |-> runCmd],
                  Result([ok |-> d.ok, out |-> d.out], revsFiles, cacheNeedsUpdate, TRUE, d.log))

DoGetFiles ==
    \E sha \in Shas, diffToSha \in {"", "a"}, allFiles \in BOOLEAN, path \in Paths,
       o \in OutcomePairs :
        \* path is read on the pairwise branch only
        /\ diffToSha = "" => path = ""
        /\ Apply("getFiles",
                 [sha |-> sha, diffToSha |-> diffToSha, allFiles |-> allFiles, path |-> path],
                 getFiles(sha, diffToSha, allFiles, path, o[1], o[2]))

DoGetWorkDirFiles ==
    \E status \in {"ANY", "MODIFIED", "NEW", "DELETED", "UNKNOWN"}, o \in OutcomePairs :
        Apply("getWorkDirFiles", [status |-> status], getWorkDirFiles(status, o[1], o[2]))

DoIsNothingToCommit ==
    Apply("isNothingToCommit", [sha |-> ZERO_SHA], Unchanged(isNothingToCommit))

DoIsTreeModified ==
    \E sha \in Shas, o \in OutcomePairs :
        Apply("isTreeModified", [sha |-> sha], isTreeModified(sha, o[1], o[2]))

DoIsSameFiles ==
    \E tree1Sha \in Shas, tree2Sha \in Shas, o \in OutcomePairs :
        Apply("isSameFiles", [tree1Sha |-> tree1Sha, tree2Sha |-> tree2Sha],
              isSameFiles(tree1Sha, tree2Sha, o[1], o[2]))

DoRevLookup ==
    \E sha \in Shas, fh \in BOOLEAN :
        Apply("revLookup", [sha |-> sha, fh |-> fh], Unchanged(revLookup(sha, fh)))

DoGetChilds ==
    \E sha \in Shas : Apply("getChilds", [sha |-> sha], Unchanged(getChilds(sha)))

DoGetLaneParent ==
    \E sha \in Shas, laneNum \in 0..1 :
        Apply("getLaneParent", [sha |-> sha, laneNum |-> laneNum],
              Unchanged(getLaneParent(sha, laneNum)))

DoGetShortLog ==
    \E sha \in Shas : Apply("getShortLog", [sha |-> sha], Unchanged(getShortLog(sha)))

DoGetDescendantBranches ==
    \E sha \in Shas, shaOnly \in BOOLEAN :
        Apply("getDescendantBranches", [sha |-> sha, shaOnly |-> shaOnly],
              Unchanged(getDescendantBranches(sha, shaOnly)))

DoGetNearTags ==
    \E sha \in Shas, goDown \in BOOLEAN :
        Apply("getNearTags", [sha |-> sha, goDown |-> goDown],
              Unchanged(getNearTags(goDown, sha)))

DoGetDesc ==
    \E sha \in Shas, fh \in BOOLEAN, o \in Outcomes :
        Apply("getDesc", [sha |-> sha, fh |-> fh], getDesc(sha, fh, o))

\* The load of the working directory (Git::getDiffIndex / updateWipRevision, outside
\* this file) stores the diff of the working tree against HEAD under ZERO_SHA and
\* counts the files not in the index among them.
LoadWorkingDir ==
    \E out \in DiffOutputs, n \in 0..1 :
        /\ Idle
        /\ n <= Len(out)
        /\ revsFiles' = hashInsert(revsFiles, ShaKey(ZERO_SHA), parseDiffFormat(out))
        /\ otherFilesCount' = n
        /\ last' = [op |-> "loadWorkingDir", args |-> [out |-> out], ret |-> NULL, log |-> <<>>]
        /\ UNCHANGED <<cacheNeedsUpdate, errorReportingEnabled, refsShaMap, tmpFiles>>
        /\ UNCHANGED sessionVars


\* The caller has taken the result: control is back in the event loop.
Return ==
    /\ ~Idle
    /\ last' = NoCall
    /\ UNCHANGED <<revsFiles, cacheNeedsUpdate, errorReportingEnabled, otherFilesCount, refsShaMap>>
    /\ UNCHANGED <<tmpFiles, sessionVars>>

\* MainImpl::MainImpl and Git::Git: no repository is open, nothing runs
SessionInit ==
    /\ setRepositoryBusy = FALSE
    /\ curDir = ""
    /\ workDir = ""
    /\ repoDir = ""
    /\ stack = <<>>
    /\ procs = <<>>
    /\ nextId = 1
    /\ handles = {}
    /\ exExiting = FALSE
    /\ globalActions = FALSE
    /\ commitEnabled = FALSE
    /\ statusMsg = ""
    /\ initState = "none"
    /\ touchedReleased = FALSE
    /\ window = [hidden |-> FALSE, timer |-> FALSE, rv |-> TRUE, closed |-> FALSE,
                 ignored |-> FALSE]

\* the reference index of the loaded repository
LoadedRefs ==
    << Reference("m", {BRANCH, CUR_BRANCH}, <<>>, <<"main">>, <<>>, <<>>, ""),
       Reference("b", {TAG, RMT_BRANCH}, <<"v1">>, <<>>, <<"origin/main">>, <<>>, "") >>

Init ==
    /\ revsFiles = <<>>
    /\ cacheNeedsUpdate = FALSE
    /\ errorReportingEnabled = TRUE
    /\ otherFilesCount = 0
    /\ refsShaMap = LoadedRefs
    /\ last = NoCall
    /\ tmpFiles = {}
    /\ SessionInit

Next ==
    \/ DoRunDiffTree
    \/ DoGetFiles
    \/ DoGetWorkDirFiles
    \/ DoIsNothingToCommit
    \/ DoIsTreeModified
    \/ DoIsSameFiles
    \/ DoRevLookup
    \/ DoGetChilds
    \/ DoGetLaneParent
    \/ DoGetShortLog
    \/ DoGetDescendantBranches
    \/ DoGetNearTags
    \/ DoGetDesc
    \/ LoadWorkingDir
    \/ Return

Spec == Init /\ [][Next]_vars
(***************************************************************************)
(* Reference Index look-ups, for every reference index within the bounds   *)
(***************************************************************************)
RefNames == {"v1", "main"}

RefShas == {"m", "b"}

NameKinds == {TAG, BRANCH, RMT_BRANCH, REF}

\* the patch of an entry: none, or a name with the state of the patch
Patches ==
    {[name |-> "", kinds |-> {}], [name |-> "p", kinds |-> {APPLIED}],
     [name |-> "p", kinds |-> {UN_APPLIED}]}

\* a set of names as a QStringList
RECURSIVE listOf(_)
listOf(names) ==
    IF names = {} THEN <<>>
    ELSE LET n == CHOOSE n \in names : TRUE IN <<n>> \o listOf(names \ {n})

namesOf(att, kind) == listOf({a[2] : a \in {b \in att : b[1] = kind}})

\* the entries an identifier can have: up to MaxNames names, and a patch or none,
\* but not nothing at all
RefEntries(sha) ==
    { Reference(sha, {a[1] : a \in att} \cup p.kinds, namesOf(att, TAG), namesOf(att, BRANCH),
                namesOf(att, RMT_BRANCH), namesOf(att, REF), p.name) :
        <<att, p>> \in
            {x \in (SUBSET (NameKinds \X RefNames)) \X Patches :
                Cardinality(x[1]) <= MaxNames /\ (x[1] # {} \/ x[2].kinds # {})} }

\* the reference indexes: entries of different identifiers, in either order
RefMaps ==
    {<<>>}
    \cup {<<e>> : e \in UNION {RefEntries(sha) : sha \in RefShas}}
    \cup {<<e, f>> : <<e, f>> \in
            {x \in (UNION {RefEntries(sha) : sha \in RefShas})
                    \X (UNION {RefEntries(sha) : sha \in RefShas}) : x[1].sha # x[2].sha}}

QueryNames == RefNames \cup {"p", "zz", ""}

\* the identifiers asked about: those of the entries and one without an entry
QueryShas == RefShas \cup {"a"}

RefTypes == {TAG, BRANCH, RMT_BRANCH, REF, APPLIED, UN_APPLIED, ANY_REF}

\* 'git rev-parse --revs-only': fails, prints nothing, or prints an identifier
RevParseOutcomes ==
    {[ok |-> FALSE, out |-> <<>>], [ok |-> TRUE, out |-> <<>>],
     [ok |-> TRUE, out |-> <<"b", "\n">>]}

DoGetRefSha ==
    \E refName \in QueryNames, type \in RefTypes, askGit \in BOOLEAN, o \in RevParseOutcomes :
        /\ ~askGit => ~o.ok
        /\ Apply("getRefSha", [refName |-> refName, type |-> type, askGit |-> askGit],
                 getRefSha(refName, type, askGit, o))

DoIsPatchName ==
    \E nm \in QueryNames : Apply("isPatchName", [nm |-> nm], Unchanged(isPatchName(nm)))

DoCheckRef ==
    \E sha \in QueryShas, type \in RefTypes :
        Apply("checkRef", [sha |-> sha, type |-> type], Unchanged(checkRef(sha, maskOf(type))))

DoGetRefName ==
    \E sha \in QueryShas, type \in RefTypes :
        Apply("getRefName", [sha |-> sha, type |-> type], Unchanged(getRefName(sha, type)))

DoGetAllRefSha ==
    \E type \in RefTypes :
        Apply("getAllRefSha", [type |-> type], Unchanged(getAllRefSha(maskOf(type))))

InitRefs ==
    /\ revsFiles = <<>>
    /\ cacheNeedsUpdate = FALSE
    /\ errorReportingEnabled = TRUE
    /\ otherFilesCount = 0
    /\ refsShaMap \in RefMaps
    /\ last = NoCall
    /\ tmpFiles = {}
    /\ SessionInit

NextRefs ==
    \/ DoGetRefSha
    \/ DoIsPatchName
    \/ DoCheckRef
    \/ DoGetRefName
    \/ DoGetAllRefSha
    \/ Return

SpecRefs == InitRefs /\ [][NextRefs]_vars

(***************************************************************************)
(* The session: repository switches and tool invocations, with the event   *)
(* loop running inside Git::init and inside the wait of Git::run           *)
(***************************************************************************)
Repos == {"r1", "r2"}

RemoteDir == "remote"

\* what the session leaves alone of the query layer
cacheVars == <<revsFiles, cacheNeedsUpdate, otherFilesCount, refsShaMap, tmpFiles>>

Frame(kind, tmp, proc, loading) == [kind |-> kind, tmp |-> tmp, proc |-> proc, loading |-> loading]

Top == stack[Len(stack)]

Pop == SubSeq(stack, 1, Len(stack) - 1)

\* a setRepository call is inside Git::init
InInit == \E i \in DOMAIN stack : stack[i].kind = "setRepository"

\* the record of a call of the session: its directory or process argument, its outcome
Call(op, newDir, p, ret) ==
    [op |-> op, args |-> [newDir |-> newDir, p |-> p], ret |-> ret, log |-> <<>>]

\* an event that is no call of interest
NoEvent == Call("none", "", 0, "")

\* MyProcess(parent(), this, workDir, errorReportingEnabled): the process takes
\* the working directory and the reporting mode the controller has when it is
\* made; `own` is the mode its caller wants for it, `repo` the repository open
newProcess(kind, dir, ere, own) ==
    [kind |-> kind, dir |-> dir, repo |-> repoDir, report |-> ere, own |-> own,
     canceled |-> FALSE]

addProcess(p) == [id \in DOMAIN procs \cup {nextId} |-> IF id = nextId THEN p ELSE procs[id]]

removeProcess(id) == [i \in DOMAIN procs \ {id} |-> procs[i]]

\* MyProcess::on_cancel on the processes in ids, non blocking: the processes
\* are told to stop and are deleted when they have
cancelAll(ids) ==
    [id \in DOMAIN procs |-> IF id \in ids THEN [procs[id] EXCEPT !.canceled = TRUE]
                             ELSE procs[id]]

\* a plausible slip: the guard flag is not looked at
setRepositoryNoGuard(busy) == FALSE

\* MainImpl::setRepository, the guard
setRepositoryRejected(busy) == busy

\* MainImpl::setRepository up to its call of Git::init, which sets the working
\* directory and then runs with the event loop
SetRepository ==
    \E newDir \in Repos :
        IF setRepositoryRejected(setRepositoryBusy)
        THEN /\ last' = Call("setRepository", newDir, 0, "rejected")
             /\ UNCHANGED sessionVars
             /\ UNCHANGED <<cacheVars, errorReportingEnabled>>
        ELSE /\ Len(stack) < MaxDepth
             /\ setRepositoryBusy' = TRUE
             /\ curDir' = newDir
             /\ procs' = cancelAll(DOMAIN procs)
             /\ globalActions' = FALSE
             /\ commitEnabled' = FALSE
             /\ workDir' = newDir
             /\ repoDir' = newDir
             /\ initState' = "running"
             /\ stack' = Append(stack, Frame("setRepository", "", 0, FALSE))
             /\ last' = Call("setRepository", newDir, 0, "started")
             /\ UNCHANGED <<nextId, handles, exExiting, statusMsg, touchedReleased, window>>
             /\ UNCHANGED <<cacheVars, errorReportingEnabled>>

\* Git::init starts the loading of the revisions
InitStartLoader ==
    /\ stack # <<>> /\ Top.kind = "setRepository" /\ ~Top.loading
    /\ nextId <= MaxProcs
    /\ procs' = addProcess(newProcess("loader", workDir, errorReportingEnabled, TRUE))
    /\ nextId' = nextId + 1
    /\ stack' = Append(Pop, Frame("setRepository", "", 0, TRUE))
    /\ last' = NoEvent
    /\ UNCHANGED <<setRepositoryBusy, curDir, workDir, repoDir, handles, exExiting,
                   globalActions, commitEnabled, statusMsg, initState, touchedReleased, window>>
    /\ UNCHANGED <<cacheVars, errorReportingEnabled>>

\* a plausible slip: the actions are enabled whatever Git::init returned
afterInitAlways(ok) ==
    [globalActions |-> TRUE,
     statusMsg |-> IF ok THEN statusMsg ELSE "Not a git archive"]

\* MainImpl::setRepository after Git::init returned ok
afterInit(ok) ==
    [globalActions |-> IF ok THEN TRUE ELSE globalActions,
     statusMsg |-> IF ok THEN statusMsg ELSE "Not a git archive"]

\* Git::init returns, and MainImpl::setRepository with it; an init that has
\* started the loading does not fail
InitReturn ==
    \E ok \in BOOLEAN :
        /\ stack # <<>> /\ Top.kind = "setRepository"
        /\ ~exExiting
        /\ ~ok => ~Top.loading
        /\ globalActions' = afterInit(ok).globalActions
        /\ statusMsg' = afterInit(ok).statusMsg
        /\ setRepositoryBusy' = FALSE
        /\ stack' = Pop
        /\ initState' = IF ok THEN "ok" ELSE "failed"
        /\ last' = Call("setRepositoryEnd", curDir, 0, IF ok THEN "ok" ELSE "failed")
        /\ UNCHANGED <<curDir, workDir, repoDir, procs, nextId, handles, exExiting,
                       commitEnabled, touchedReleased, window>>
        /\ UNCHANGED <<cacheVars, errorReportingEnabled>>

\* exExiting is thrown out of Git::init when the events have been processed,
\* and caught by MainImpl::setRepository, which returns
InitUnwind ==
    /\ stack # <<>> /\ Top.kind = "setRepository"
    /\ exExiting
    /\ exExiting' = FALSE
    /\ stack' = Pop
    /\ initState' = "unwound"
    /\ last' = Call("setRepositoryEnd", curDir, 0, "unwound")
    /\ UNCHANGED <<setRepositoryBusy, curDir, workDir, repoDir, procs, nextId, handles,
                   globalActions, commitEnabled, statusMsg, touchedReleased, window>>
    /\ UNCHANGED <<cacheVars, errorReportingEnabled>>

RunKinds == {"run", "formatPatch", "probe"}

\* git->findChildren<QProcess*>(): the processes alive, and the MyProcess of
\* every Git::run that has not returned
gitChildren ==
    DOMAIN procs \cup {stack[i].proc : i \in {j \in DOMAIN stack : stack[j].kind \in RunKinds}}

\* a plausible slip: the close is accepted whatever is left
closeAcceptedAlways(children) == TRUE

\* MainImpl::closeEvent, the test of the child processes
closeAccepted(children) == children = {}

\* MainImpl::closeEvent: hides the window, raises exExiting, which is pending for
\* the calls that registered it, and stops the processes; with a process left
\* the event is ignored and a timer of 100 ms started, else the views are
\* deleted and the event accepted
closeEvent ==
    /\ exExiting' = InInit
    /\ procs' = cancelAll(DOMAIN procs)
    /\ window' = IF closeAccepted(gitChildren)
                 THEN [hidden |-> TRUE, timer |-> FALSE, rv |-> FALSE, closed |-> TRUE,
                       ignored |-> window.ignored]
                 ELSE [hidden |-> TRUE, timer |-> TRUE, rv |-> window.rv, closed |-> FALSE,
                       ignored |-> TRUE]
    /\ last' = NoEvent
    /\ UNCHANGED <<setRepositoryBusy, curDir, workDir, repoDir, stack, nextId, handles,
                   globalActions, commitEnabled, statusMsg, initState, touchedReleased>>
    /\ UNCHANGED <<cacheVars, errorReportingEnabled>>

\* the window is closed by the user, or by MainImpl::ActExit_activated
CloseEvent ==
    /\ ~window.hidden
    /\ closeEvent

\* the timer of an ignored close event fires: MainImpl::ActClose_activated
\* calls close(), which sends the close event again
ActClose_activated ==
    /\ window.timer
    /\ closeEvent

\* A blocking invocation starts, in a repository that is open: Git::run as
\* such, Git::formatPatch with a remote directory, or the invocation that
\* Git::runDiffTreeWithRenameDetection and Git::getRefSha make with the
\* error reporting off
StartRun ==
    \E kind \in RunKinds :
        /\ repoDir # "" /\ Len(stack) < MaxDepth /\ nextId <= MaxProcs
        /\ workDir' = IF kind = "formatPatch" THEN RemoteDir ELSE workDir
        /\ errorReportingEnabled' = IF kind = "probe" THEN FALSE ELSE errorReportingEnabled
        /\ procs' = addProcess(newProcess("sync", workDir', errorReportingEnabled',
                                          kind # "probe"))
        /\ nextId' = nextId + 1
        /\ stack' = Append(stack, Frame(kind, workDir, nextId, FALSE))
        /\ last' = NoEvent
        /\ UNCHANGED <<setRepositoryBusy, curDir, repoDir, handles, exExiting,
                       globalActions, commitEnabled, statusMsg, initState, touchedReleased, window>>
        /\ UNCHANGED cacheVars

\* The process of the innermost blocking invocation is gone: Git::run returns,
\* and its caller restores what it had set
FinishRun ==
    /\ stack # <<>> /\ Top.kind \in RunKinds
    /\ Top.proc \notin DOMAIN procs
    /\ workDir' = IF Top.kind = "formatPatch" THEN Top.tmp ELSE workDir
    /\ errorReportingEnabled' = IF Top.kind = "probe" THEN TRUE ELSE errorReportingEnabled
    /\ stack' = Pop
    /\ last' = NoEvent
    /\ UNCHANGED <<setRepositoryBusy, curDir, repoDir, procs, nextId, handles, exExiting,
                   globalActions, commitEnabled, statusMsg, initState, touchedReleased, window>>
    /\ UNCHANGED cacheVars

\* Git::runAsync: the caller holds the MyProcess*, the process is deleted when done
RunAsync ==
    /\ repoDir # "" /\ nextId <= MaxProcs
    /\ procs' = addProcess(newProcess("async", workDir, errorReportingEnabled, TRUE))
    /\ nextId' = nextId + 1
    /\ handles' = handles \cup {nextId}
    /\ last' = NoEvent
    /\ UNCHANGED <<setRepositoryBusy, curDir, workDir, repoDir, stack, exExiting,
                   globalActions, commitEnabled, statusMsg, initState, touchedReleased, window>>
    /\ UNCHANGED <<cacheVars, errorReportingEnabled>>

\* a process ends, by itself or because it was told to, and is deleted
ProcExit ==
    \E id \in DOMAIN procs :
        /\ procs' = removeProcess(id)
        /\ last' = NoEvent
        /\ UNCHANGED <<setRepositoryBusy, curDir, workDir, repoDir, stack, nextId, handles,
                       exExiting, globalActions, commitEnabled, statusMsg, initState,
                       touchedReleased, window>>
        /\ UNCHANGED <<cacheVars, errorReportingEnabled>>

\* Git::cancelProcess(p): p is NULL (0), a process alive, or one that is deleted;
\* a call on a deleted object can do nothing, or act on the object that has
\* taken its place
CancelProcess ==
    \E p \in handles \cup {0} :
        /\ IF p = 0
           THEN /\ UNCHANGED <<procs, touchedReleased>>
                /\ last' = Call("cancelProcess", "", p, "null")
           ELSE IF p \in DOMAIN procs
           THEN /\ procs' = cancelAll({p})
                /\ UNCHANGED touchedReleased
                /\ last' = Call("cancelProcess", "", p,
                                IF procs[p].canceled THEN "cancelled" ELSE "alive")
           ELSE /\ touchedReleased' = TRUE
                /\ \E ids \in {{}} \cup {{id} : id \in DOMAIN procs} : procs' = cancelAll(ids)
                /\ last' = Call("cancelProcess", "", p, "deleted")
        /\ UNCHANGED <<setRepositoryBusy, curDir, workDir, repoDir, stack, nextId, handles,
                       exExiting, globalActions, commitEnabled, statusMsg, initState,
                       window>>
        /\ UNCHANGED <<cacheVars, errorReportingEnabled>>

\* Git::cancelDataLoading: the loaders are told to stop, non blocking
CancelDataLoading ==
    /\ procs' = cancelAll({id \in DOMAIN procs : procs[id].kind = "loader"})
    /\ last' = Call("cancelDataLoading", "", 0,
                    IF \E id \in DOMAIN procs : procs[id].kind = "loader" /\ ~procs[id].canceled
                    THEN "alive" ELSE "cancelled")
    /\ UNCHANGED <<setRepositoryBusy, curDir, workDir, repoDir, stack, nextId, handles,
                   exExiting, globalActions, commitEnabled, statusMsg, initState,
                   touchedReleased, window>>
    /\ UNCHANGED <<cacheVars, errorReportingEnabled>>

\* MainImpl::newRevsAdded: a loader that was not told to stop has delivered
\* revisions, and there is something to commit
NewRevsAdded ==
    /\ \E id \in DOMAIN procs : procs[id].kind = "loader" /\ ~procs[id].canceled
    /\ ~commitEnabled
    /\ commitEnabled' = TRUE
    /\ last' = NoEvent
    /\ UNCHANGED <<setRepositoryBusy, curDir, workDir, repoDir, stack, procs, nextId, handles,
                   exExiting, globalActions, statusMsg, initState, touchedReleased, window>>
    /\ UNCHANGED <<cacheVars, errorReportingEnabled>>

InitSession ==
    /\ revsFiles = <<>>
    /\ cacheNeedsUpdate = FALSE
    /\ errorReportingEnabled = TRUE
    /\ otherFilesCount = 0
    /\ refsShaMap = LoadedRefs
    /\ last = NoEvent
    /\ tmpFiles = {}
    /\ SessionInit

NextSession ==
    \/ SetRepository
    \/ InitStartLoader
    \/ InitReturn
    \/ InitUnwind
    \/ CloseEvent
    \/ ActClose_activated
    \/ StartRun
    \/ FinishRun
    \/ RunAsync
    \/ ProcExit
    \/ CancelProcess
    \/ CancelDataLoading
    \/ NewRevsAdded

Session == InitSession /\ [][NextSession]_vars

\* the event loop runs, so that a timer that was started fires
SessionFair == Session /\ WF_vars(ActClose_activated)

(***************************************************************************)
(* Commits: the temporary files of Git::commitFiles and Git::stgCommit     *)
(***************************************************************************)
MsgFile == "qgit_cmt_msg.txt"

PatchFile == "qgit_tmp_patch.txt"

\* the files of the working directory: name, deleted or not, in the index or not
WorkDirFiles ==
    { << [name |-> "f1", deleted |-> d1, inIndex |-> i1],
         [name |-> "f2", deleted |-> d2, inIndex |-> i2] >> :
        d1 \in BOOLEAN, i1 \in BOOLEAN, d2 \in BOOLEAN, i2 \in BOOLEAN }

Selections == {<<"f1">>, <<"f2">>, <<"f1", "f2">>}

\* Git::getOtherFiles: the files not selected (and in the index, if asked so)
getOtherFiles(wd, selFiles, onlyInIndex) ==
    LET other == SelectSeq(wd, LAMBDA f : ~listContains(selFiles, f.name)
                                           /\ (~onlyInIndex \/ f.inIndex))
    IN  [i \in DOMAIN other |-> other[i].name]

\* Git::updateIndex: the invocations it makes, each one only if the one before succeeded
updateIndex(wd, files) ==
    LET isDeleted(nm) == \E i \in DOMAIN wd : wd[i].name = nm /\ wd[i].deleted
        toRemove == SelectSeq(files, isDeleted)
        toAdd == SelectSeq(files, LAMBDA nm : ~isDeleted(nm))
    IN  (IF toRemove # <<>> THEN << <<"git", "rm", "--cached">> \o toRemove >> ELSE <<>>)
        \o (IF toAdd # <<>> THEN << <<"git", "add">> \o toAdd >> ELSE <<>>)

\* the invocations of a chain of steps, the first of which is the n-th of the
\* call: they run in order up to the one that fails, number failAt of the call
runChain(plan, n, failAt) ==
    LET upTo == IF failAt \in n..(n + Len(plan) - 1) THEN failAt - n + 1 ELSE Len(plan)
    IN  [i \in 1..upTo |-> run(plan[i], TRUE, [ok |-> (n + i - 1 # failAt), out |-> <<>>])]

chainFailed(plan, n, failAt) == failAt \in n..(n + Len(plan) - 1)

\* invocations whose result is not looked at, made with the error reporting off or on
runUnchecked(cmds, report, ok) ==
    [i \in DOMAIN cmds |-> run(cmds[i], report, [ok |-> ok, out |-> <<>>])]

\* a plausible slip: a step that fails returns at once
leaveOnSuccessOnly(ret, files, file) == IF ret THEN files \ {file} ELSE files

\* the labels fail: and exit: of Git::commitFiles and Git::stgCommit: dir.remove(file)
leave(ret, files, file) == files \ {file}

\* Git::commitFiles
commitFiles(wd, selFiles, amend, writeOk, failAt) ==
    LET notSel == getOtherFiles(wd, selFiles, TRUE)
        plan == (IF notSel # <<>> THEN << <<"git", "reset", "--">> \o notSel >> ELSE <<>>)
                \o updateIndex(wd, selFiles)
                \o << <<"git", "commit">> \o (IF amend THEN <<"--amend">> ELSE <<>>)
                      \o <<"-F", MsgFile>> >>
                \o (IF notSel # <<>> THEN updateIndex(wd, notSel) ELSE <<>>)
        ret == ~chainFailed(plan, 1, failAt)
    IN  IF ~writeOk
        THEN [ret |-> FALSE, wrote |-> FALSE, tmp |-> tmpFiles, log |-> <<>>]
        ELSE [ret |-> ret, wrote |-> TRUE,
              tmp |-> leave(ret, tmpFiles \cup {MsgFile}, MsgFile),
              log |-> runChain(plan, 1, failAt)]

\* a plausible slip: the stash is left where it is
stashPopNever(partialSelection, stashOk) == <<>>

\* 'git stash pop' with the error reporting off, made when the selection is partial
stashPop(partialSelection, stashOk) ==
    IF partialSelection THEN runUnchecked(<< <<"git", "stash", "pop">> >>, FALSE, stashOk)
    ELSE <<>>

\* Git::stgCommit, with Git::mkPatchFromWorkDir
stgCommit(wd, selFiles, msgEmpty, fold, writeOk, stashOk, failAt) ==
    LET partialSelection == getOtherFiles(wd, selFiles, FALSE) # <<>>
        notSel == IF partialSelection THEN getOtherFiles(wd, selFiles, TRUE) ELSE <<>>
        mkPatch == updateIndex(wd, selFiles) \o << <<"git", "diff", "-C", "HEAD">> >>
        stash == IF partialSelection THEN runUnchecked(<< <<"git", "stash">> >>, FALSE, stashOk)
                 ELSE <<>>
        import == << <<"stg", "status", "--reset">> >>
                  \o (IF fold
                      THEN (IF ~msgEmpty THEN << <<"stg", "edit", "--message">> >> ELSE <<>>)
                           \o << <<"stg", "fold", PatchFile>>, <<"stg", "refresh">> >>
                      ELSE << <<"stg", "import", "--mail", PatchFile>> >>)
        unstash == IF partialSelection
                   THEN runUnchecked(<< <<"git", "reset">> >>, TRUE, stashOk)
                        \o stashPop(partialSelection, stashOk)
                   ELSE <<>>
        pop == stashPop(partialSelection, stashOk)
        restore == IF partialSelection /\ notSel # <<>> THEN updateIndex(wd, notSel) ELSE <<>>
        n2 == 1 + Len(mkPatch)
        n3 == n2 + Len(import)
        log1 == runChain(mkPatch, 1, failAt)
        log2 == log1 \o stash \o runChain(import, n2, failAt)
        log3 == log2 \o pop \o runChain(restore, n3, failAt)
    IN  IF chainFailed(mkPatch, 1, failAt) \/ ~writeOk
        THEN [ret |-> FALSE, wrote |-> FALSE, tmp |-> leave(FALSE, tmpFiles, PatchFile),
              log |-> log1]
        ELSE IF chainFailed(import, n2, failAt)
        THEN [ret |-> FALSE, wrote |-> TRUE,
              tmp |-> leave(FALSE, tmpFiles \cup {PatchFile}, PatchFile),
              log |-> log2 \o unstash]
        ELSE [ret |-> ~chainFailed(restore, n3, failAt), wrote |-> TRUE,
              tmp |-> leave(~chainFailed(restore, n3, failAt), tmpFiles \cup {PatchFile},
                            PatchFile),
              log |-> log3]

\* a commit call: its temporary file, its result and its invocations
ApplyCommit(op, args, res) ==
    /\ Idle
    /\ tmpFiles' = res.tmp
    /\ last' = [op |-> op, args |-> args, ret |-> Ptr([ok |-> res.ret, wrote |-> res.wrote]),
                log |-> res.log]
    /\ UNCHANGED <<revsFiles, cacheNeedsUpdate, errorReportingEnabled, otherFilesCount,
                   refsShaMap>>
    /\ UNCHANGED sessionVars

DoCommitFiles ==
    \E wd \in WorkDirFiles, selFiles \in Selections, amend \in BOOLEAN, writeOk \in BOOLEAN,
       failAt \in 0..MaxRuns :
        ApplyCommit("commitFiles", [wd |-> wd, selFiles |-> selFiles, amend |-> amend],
                    commitFiles(wd, selFiles, amend, writeOk, failAt))

DoStgCommit ==
    \E wd \in WorkDirFiles, selFiles \in Selections, msgEmpty \in BOOLEAN, fold \in BOOLEAN,
       writeOk \in BOOLEAN, stashOk \in BOOLEAN, failAt \in 0..MaxRuns :
        ApplyCommit("stgCommit", [wd |-> wd, selFiles |-> selFiles, fold |-> fold],
                    stgCommit(wd, selFiles, msgEmpty, fold, writeOk, stashOk, failAt))

NextCommit ==
    \/ DoCommitFiles
    \/ DoStgCommit
    \/ Return

SpecCommit == Init /\ [][NextCommit]_vars

(***************************************************************************)
(* Row names of the file list: Git::removeExtraFileInfo                    *)
(***************************************************************************)
\* a name is a sequence of characters
Arrow == <<" ", "-", "-", ">", " ">>

Paren == <<" ", "(">>

\* QString::indexOf: the first position where sep occurs in s, 0 when it does not
indexOf(s, sep) ==
    LET at == {i \in 1..(Len(s) - Len(sep) + 1) : SubSeq(s, i, i + Len(sep) - 1) = sep}
    IN  IF at = {} THEN 0 ELSE CHOOSE i \in at : \A j \in at : i <= j

\* QString::contains
strContains(s, sep) == indexOf(s, sep) # 0

\* QString::split, empty fields kept
RECURSIVE split(_, _)
split(s, sep) ==
    LET i == indexOf(s, sep)
    IN  IF i = 0 THEN <<s>>
        ELSE <<SubSeq(s, 1, i - 1)>> \o split(SubSeq(s, i + Len(sep), Len(s)), sep)

\* QString::section(sep, k, k): field k of s, counted from 0, or from the end when k
\* is negative; empty when there is none
section(s, sep, k) ==
    LET fields == split(s, sep)
        at == IF k < 0 THEN Len(fields) + 1 + k ELSE k + 1
    IN  IF at \in DOMAIN fields THEN fields[at] ELSE <<>>

\* Git::removeExtraFileInfo
removeExtraFileInfo(rowName) ==
    IF strContains(rowName, Arrow)
    THEN section(section(rowName, Arrow, 1), Paren, 0)
    ELSE rowName

\* the pieces file names are made of here: a letter, a dot, a blank, a parenthesis
Pieces == {<<"a">>, <<".">>, <<" ">>, <<"(">>, Arrow}

RECURSIVE NamesOfPieces(_)
NamesOfPieces(n) ==
    IF n = 0 THEN {<<>>}
    ELSE LET shorter == NamesOfPieces(n - 1)
         IN  shorter \cup {nm \o pc : nm \in shorter, pc \in Pieces}

FileNames == NamesOfPieces(MaxPieces) \ {<<>>}

\* the file names no one takes for a rename row
PlainNames == {nm \in FileNames : ~strContains(nm, Arrow)}

\* the row of a renamed or copied file: 'old --> new (NN%)'
renameRow(old, new) == old \o Arrow \o new \o <<" ", "(", "9", "0", "%", ")">>

ApplyName(form, rowName, new) ==
    /\ Idle
    /\ last' = [op |-> "removeExtraFileInfo",
                args |-> [form |-> form, rowName |-> rowName, new |-> new],
                ret |-> Ptr(removeExtraFileInfo(rowName)), log |-> <<>>]
    /\ UNCHANGED <<revsFiles, cacheNeedsUpdate, errorReportingEnabled, otherFilesCount,
                   refsShaMap, tmpFiles>>
    /\ UNCHANGED sessionVars

DoRemoveExtraFileInfo ==
    \/ \E nm \in FileNames : ApplyName("name", nm, nm)
    \/ \E old \in PlainNames, new \in PlainNames : ApplyName("rename", renameRow(old, new), new)

NextNames ==
    \/ DoRemoveExtraFileInfo
    \/ Return

SpecNames == Init /\ [][NextNames]_vars

(***************************************************************************)
(* Names in loading order: Git::getAllRefNames, Git::sortShaListByIndex    *)
(***************************************************************************)
\* the characters of the names and identifiers used here, as Latin-1 codes
chars(nm) ==
    CASE nm = "v1" -> <<118, 49>>
      [] nm = "main" -> <<109, 97, 105, 110>>
      [] nm = "p" -> <<112>>
      [] nm = "m" -> <<109>>
      [] nm = "b" -> <<98>>
      [] nm = "a" -> <<97>>
      [] OTHER -> <<>>

\* the positions in the loading order looked at: small ones, and the two around
\* the first that has more digits than the caption is wide
OrderIdxValues == {1, 20, 999999, 1000000}

\* the revision stores: which identifiers are loaded, and where in the order
Stores ==
    UNION { {f \in [loaded -> OrderIdxValues] :
                \A x \in loaded, y \in loaded : x # y => f[x] # f[y]} :
            loaded \in SUBSET RefShas }

\* Git::revLookup in such a store
revLookupIn(revs, sha) ==
    IF sha # "" /\ sha \in DOMAIN revs THEN Ptr([sha |-> sha, orderIdx |-> revs[sha]]) ELSE NULL

\* QStringList::sort: ascending in operator< of QString
RECURSIVE sortInsertString(_, _)
sortInsertString(e, sorted) ==
    IF sorted = <<>> THEN <<e>>
    ELSE IF lexLess(sorted[1], e) THEN <<sorted[1]>> \o sortInsertString(e, Tail(sorted))
    ELSE <<e>> \o sorted

RECURSIVE sortStrings(_)
sortStrings(list) ==
    IF list = <<>> THEN <<>> ELSE sortInsertString(list[1], sortStrings(Tail(list)))

\* the loop that strips 'idx': section(' ', -1, -1) of every string
stripIdxStrings(list) == [i \in DOMAIN list |-> section(list[i], <<32>>, -1)]

\* Git::appendNamesWithId
appendNamesWithId(names, revs, sha, data, onlyLoaded) ==
    LET r == revLookupIn(revs, sha)
    IN  IF onlyLoaded /\ r = NULL THEN names
        ELSE IF onlyLoaded
        THEN names \o [i \in DOMAIN data |-> caption(Deref(r).orderIdx) \o chars(data[i])]
        ELSE names \o [i \in DOMAIN data |-> chars(data[i])]

\* the body of the loop of Git::getAllRefNames, for one entry of the index
appendNamesOfEntry(names, revs, e, mask, onlyLoaded) ==
    LET n1 == IF TAG \in mask THEN appendNamesWithId(names, revs, e.sha, e.tags, onlyLoaded)
              ELSE names
        n2 == IF BRANCH \in mask
              THEN appendNamesWithId(n1, revs, e.sha, e.branches, onlyLoaded) ELSE n1
        n3 == IF RMT_BRANCH \in mask
              THEN appendNamesWithId(n2, revs, e.sha, e.remoteBranches, onlyLoaded) ELSE n2
        n4 == IF REF \in mask THEN appendNamesWithId(n3, revs, e.sha, e.refs, onlyLoaded)
              ELSE n3
    IN  IF mask \cap {APPLIED, UN_APPLIED} # {} /\ ~onlyLoaded
        THEN n4 \o <<chars(e.stgitPatch)>> ELSE n4

RECURSIVE appendNamesOfEntries(_, _, _, _, _)
appendNamesOfEntries(names, revs, map, mask, onlyLoaded) ==
    IF map = <<>> THEN names
    ELSE appendNamesOfEntries(appendNamesOfEntry(names, revs, map[1], mask, onlyLoaded),
                              revs, Tail(map), mask, onlyLoaded)

\* Git::getAllRefNames
getAllRefNames(revs, mask, onlyLoaded) ==
    LET names == appendNamesOfEntries(<<>>, revs, refsShaMap, mask, onlyLoaded)
    IN  IF onlyLoaded THEN stripIdxStrings(sortStrings(names)) ELSE names

RECURSIVE appendShas(_, _, _)
appendShas(names, revs, shaList) ==
    IF shaList = <<>> THEN names
    ELSE appendShas(appendNamesWithId(names, revs, shaList[1], <<shaList[1]>>, TRUE),
                    revs, Tail(shaList))

\* Git::sortShaListByIndex
sortShaListByIndex(revs, shaList) ==
    stripIdxStrings(sortStrings(appendShas(<<>>, revs, shaList)))

ShaLists ==
    {<<>>} \cup {<<x>> : x \in QueryShas}
    \cup {<<x, y>> : <<x, y>> \in {z \in QueryShas \X QueryShas : z[1] # z[2]}}

DoGetAllRefNames ==
    \E revs \in Stores, type \in RefTypes, onlyLoaded \in BOOLEAN :
        Apply("getAllRefNames", [revs |-> revs, type |-> type, onlyLoaded |-> onlyLoaded],
              Unchanged(Ptr(getAllRefNames(revs, maskOf(type), onlyLoaded))))

DoSortShaListByIndex ==
    \E revs \in Stores, shaList \in ShaLists :
        Apply("sortShaListByIndex", [revs |-> revs, shaList |-> shaList],
              Unchanged(Ptr(sortShaListByIndex(revs, shaList))))

NextOrder ==
    \/ DoGetAllRefNames
    \/ DoSortShaListByIndex
    \/ Return

SpecOrder == InitRefs /\ [][NextOrder]_vars

(***************************************************************************)
(* Git::getFiles entered again while its tool invocation runs: the events  *)
(* processed at EM_PROCESS_EVENTS and inside Git::run call it again        *)
(***************************************************************************)
\* a getFiles call that waits for its invocation
FilesFrame(sha, merge) == [kind |-> "getFiles", sha |-> sha, merge |-> merge]

FilesCall(op, sha, allFiles, ret) ==
    [op |-> op, args |-> [sha |-> sha, allFiles |-> allFiles], ret |-> ret,
     log |-> <<>>]

\* the part of Git::getFiles (no diffToSha) and of Git::getAllMergeFiles before
\* EM_PROCESS_EVENTS: what the call returns at once, or that it goes on to wait
getFilesBeforeWait(sha, allFiles) ==
    LET rp == revLookup(sha, FALSE)
        r  == Deref(rp)
        merge == parentsCount(r) > 1 /\ allFiles
        key == IF merge THEN AllMergeKey(r.sha) ELSE ShaKey(r.sha)
    IN  IF rp = NULL THEN [wait |-> FALSE, ret |-> NULL]
        ELSE IF parentsCount(r) = 0 THEN [wait |-> FALSE, ret |-> NULL]
        ELSE IF contains(revsFiles, key) THEN [wait |-> FALSE, ret |-> Ptr(revsFiles[key])]
        ELSE IF ~merge /\ sha = ZERO_SHA THEN [wait |-> FALSE, ret |-> NULL]
        ELSE [wait |-> TRUE, merge |-> merge]

\* Git::getFiles after EM_PROCESS_EVENTS: the invocation, the second look-up, the insert
getFilesAfterWait(sha, o1, o2) ==
    LET runCmd == <<"git", "diff-tree", "--no-color", "-r", "-c", sha>>
        d      == runDiffTreeWithRenameDetection(runCmd, o1, o2)
        ins    == insertNewFiles(revsFiles, ShaKey(sha), d.out)
    IN  IF ~d.ok THEN Result(NULL, revsFiles, cacheNeedsUpdate, TRUE, d.log)
        ELSE IF contains(revsFiles, ShaKey(sha)) THEN Unchanged(Ptr(revsFiles[ShaKey(sha)]))
        ELSE Result(ins.rf, ins.files, TRUE, TRUE, d.log)

\* Git::getAllMergeFiles after EM_PROCESS_EVENTS: the invocation and the insert
getAllMergeFilesAfterWait(sha, o1, o2) ==
    LET runCmd == <<"git", "diff-tree", "--no-color", "-r", "-m", sha>>
        d      == runDiffTreeWithRenameDetection(runCmd, o1, o2)
        ins    == insertNewFiles(revsFiles, AllMergeKey(sha), d.out)
    IN  IF ~d.ok THEN Result(NULL, revsFiles, cacheNeedsUpdate, TRUE, d.log)
        ELSE Result(ins.rf, ins.files, cacheNeedsUpdate, TRUE, d.log)

reentryUnchanged ==
    UNCHANGED <<errorReportingEnabled, otherFilesCount, refsShaMap, tmpFiles, setRepositoryBusy,
                curDir, workDir, repoDir, procs, nextId, handles, exExiting, globalActions,
                commitEnabled, statusMsg, initState, touchedReleased, window>>

\* getFiles is called, from the event loop or from an event processed while
\* another getFiles waits
GetFilesCalled ==
    \E sha \in Shas, allFiles \in BOOLEAN :
        LET b == getFilesBeforeWait(sha, allFiles)
        IN  /\ IF b.wait
               THEN /\ Len(stack) < MaxDepth
                    /\ stack' = Append(stack, FilesFrame(sha, b.merge))
                    /\ last' = FilesCall("getFiles waits", sha, allFiles, NULL)
               ELSE /\ stack' = stack
                    /\ last' = FilesCall("getFiles", sha, allFiles, b.ret)
            /\ UNCHANGED <<revsFiles, cacheNeedsUpdate>>
            /\ reentryUnchanged

\* the invocation of the innermost waiting getFiles ends, and the call returns
GetFilesReturns ==
    \E o1 \in Outcomes, o2 \in Outcomes :
        /\ stack # <<>>
        /\ Top.kind = "getFiles"
        /\ LET res == IF Top.merge THEN getAllMergeFilesAfterWait(Top.sha, o1, o2)
                      ELSE getFilesAfterWait(Top.sha, o1, o2)
           IN  /\ revsFiles' = res.files
               /\ cacheNeedsUpdate' = res.cnu
               /\ last' = FilesCall("getFiles", Top.sha, Top.merge, res.ret)
        /\ stack' = Pop
        /\ reentryUnchanged

NextReentry ==
    \/ GetFilesCalled
    \/ GetFilesReturns

SpecReentry == Init /\ [][NextReentry]_vars

(***************************************************************************)
(* Import of dropped revisions: MainImpl::revisionsDropped                 *)
(***************************************************************************)
\* the steps of the import of one revision that can fail: the remote repository
\* is not there, format-patch fails, the patch directory does not hold one
\* file, the patch does not apply
ImportSteps == {"exists", "formatPatch", "count", "applyPatchFile"}

\* Git::resetCommits
resetCommits(parentDepth) == run(<<"git", "reset", "--soft", "HEAD~", parentDepth>>, TRUE,
                                 [ok |-> TRUE, out |-> <<>>])

\* Git::applyPatchFile, for a git repository and for a StGit one
applyPatchFile(fold, isStGIT, ok) ==
    LET o == [ok |-> ok, out |-> <<>>]
    IN  IF isStGIT /\ fold
        THEN <<run(<<"stg", "fold">>, TRUE, o)>>
             \o (IF ok THEN <<run(<<"stg", "refresh">>, TRUE, o)>> ELSE <<>>)
        ELSE IF isStGIT THEN <<run(<<"stg", "import", "--mail">>, TRUE, o)>>
        ELSE <<run(<<"git", "am", "--utf8", "--3way", "--keep">>, TRUE, o)>>

\* the body of the loop for the revision at position it, the revNum-th imported:
\* the invocations made, and whether the loop goes on
importRevision(revNum, fold, isStGIT, failRev, failStep) ==
    LET fails(step) == revNum = failRev /\ failStep = step
        format == run(<<"git", "format-patch", revNum>>, TRUE,
                      [ok |-> ~fails("formatPatch"), out |-> <<>>])
    IN  IF fails("exists") THEN [ok |-> FALSE, log |-> <<>>]
        ELSE IF fails("formatPatch") \/ fails("count") THEN [ok |-> FALSE, log |-> <<format>>]
        ELSE [ok |-> ~fails("applyPatchFile"),
              log |-> <<format>> \o applyPatchFile(fold, isStGIT, ~fails("applyPatchFile"))]

\* the do-while loop: it is the position in remoteRevs (constBegin is 1, constEnd
\* one past the last), decremented first; revNum counts the revisions tried
RECURSIVE importLoop(_, _, _, _, _, _, _)
importLoop(it, revNum, log, fold, isStGIT, failRev, failStep) ==
    LET step == importRevision(revNum + 1, fold, isStGIT, failRev, failStep)
        res  == [it |-> it - 1, revNum |-> revNum + 1, log |-> log \o step.log]
    IN  IF ~step.ok THEN res
        ELSE IF it - 1 # 1
        THEN importLoop(it - 1, revNum + 1, res.log, fold, isStGIT, failRev, failStep)
        ELSE res

\* what follows the loop: the status message and the reset
afterImport(loop, workDirOnly) ==
    LET failed == loop.it # 1
        revNum == IF failed THEN loop.revNum - 1 ELSE loop.revNum
    IN  [status |-> IF failed THEN "Failed to import revision" ELSE "",
         shown |-> IF failed THEN loop.revNum ELSE 0,
         log |-> loop.log
                 \o (IF workDirOnly /\ revNum > 0 THEN <<resetCommits(revNum)>> ELSE <<>>)]

\* MainImpl::revisionsDropped for count revisions
revisionsDropped(count, workDirOnly, fold, isStGIT, failRev, failStep) ==
    afterImport(importLoop(count + 1, 0, <<>>, fold, isStGIT, failRev, failStep), workDirOnly)

\* what keeps the import from starting: a drop is going on, a stale import
\* directory, the dialog was cancelled
DropRefusals == {"isDropping", "stale", "cancelled"}

DropRefused ==
    \E why \in DropRefusals, count \in 1..MaxRevs :
        /\ Idle
        /\ statusMsg' = IF why = "stale" THEN "Please remove stale import directory"
                        ELSE statusMsg
        /\ last' = [op |-> "revisionsDropped refused", args |-> [count |-> count, why |-> why],
                    ret |-> NULL, log |-> <<>>]
        /\ UNCHANGED <<cacheVars, errorReportingEnabled>>
        /\ UNCHANGED <<setRepositoryBusy, curDir, workDir, repoDir, stack, procs, nextId, handles,
                       exExiting, globalActions, commitEnabled, initState, touchedReleased, window>>

DoRevisionsDropped ==
    \E count \in 1..MaxRevs, workDirOnly \in BOOLEAN, fold \in BOOLEAN, isStGIT \in BOOLEAN,
       failRev \in 0..MaxRevs, failStep \in ImportSteps :
        LET res == revisionsDropped(count, workDirOnly, fold, isStGIT, failRev, failStep)
        IN  /\ Idle
            /\ failRev <= count
            /\ statusMsg' = res.status
            /\ last' = [op |-> "revisionsDropped",
                        args |-> [count |-> count, workDirOnly |-> workDirOnly, fold |-> fold,
                                  failRev |-> failRev],
                        ret |-> Ptr([shown |-> res.shown]), log |-> res.log]
            /\ UNCHANGED <<cacheVars, errorReportingEnabled>>
            /\ UNCHANGED <<setRepositoryBusy, curDir, workDir, repoDir, stack, procs, nextId,
                           handles, exExiting, globalActions, commitEnabled, initState,
                           touchedReleased, window>>

NextDrop ==
    \/ DropRefused
    \/ DoRevisionsDropped
    \/ Return

SpecDrop == Init /\ [][NextDrop]_vars

(***************************************************************************)
(* The error reporting mode: the operations that switch it off around an   *)
(* invocation, each as the statements it executes, with the events that    *)
(* are processed while an invocation runs calling further operations       *)
(***************************************************************************)
SuppressingOps ==
    {"checkEnvironment", "userInfo", "getRefSha", "runDiffTreeWithRenameDetection", "stgCommit"}

\* the statements of an operation that matter here, for each way through it:
\* "off" and "on" assign errorReportingEnabled, "run" is a call of Git::run
Programs(op) ==
    CASE op = "checkEnvironment" ->
            \* git is not found; or it is, and source-highlight is looked for
            {<<"run">>, <<"run", "off", "run", "on">>}
      [] op = "userInfo" ->
            {<<"off", "run", "run", "run", "run", "on">>}
      [] op = "getRefSha" ->
            \* the name is in the index, or git is not to be asked; or git is asked
            {<<>>, <<"off", "run", "on">>}
      [] op = "runDiffTreeWithRenameDetection" ->
            \* with rename detection; and again without it when that failed
            {<<"off", "run", "on">>, <<"off", "run", "on", "run">>}
      [] op = "stgCommit" ->
            \* no patch file; all selected; partial selection: stash, the stg
            \* steps, pop, the index restore or not; a stg step fails: reset, pop
            {<<"run">>, <<"run", "run", "run">>,
             <<"run", "off", "run", "on", "run", "run", "off", "run", "on">>,
             <<"run", "off", "run", "on", "run", "run", "off", "run", "on", "run">>,
             <<"run", "off", "run", "on", "run", "run", "run", "off", "run", "on">>}
      [] OTHER -> {}

\* a plausible slip: the reporting is not switched on again
executeNoOn(instr, ere) == IF instr = "off" THEN FALSE ELSE ere

\* the assignments errorReportingEnabled = false and errorReportingEnabled = true
execute(instr, ere) ==
    CASE instr = "off" -> FALSE
      [] instr = "on" -> TRUE
      [] OTHER -> ere

OpFrame(op, prog, pc, waiting) ==
    [kind |-> op, prog |-> prog, pc |-> pc, waiting |-> waiting]

OpEvent(what, op, report) ==
    [op |-> what, args |-> [op |-> op], ret |-> report, log |-> <<>>]

reportingUnchanged ==
    UNCHANGED <<cacheVars, setRepositoryBusy, curDir, workDir, repoDir, procs, nextId,
                handles, exExiting, globalActions, commitEnabled, statusMsg, initState,
                touchedReleased, window>>

\* an operation is called: from the event loop, or from an event processed
\* while the innermost operation waits in Git::run
OpCalled ==
    \E op \in SuppressingOps : \E prog \in Programs(op) :
        /\ IF stack = <<>> THEN TRUE ELSE Top.waiting
        /\ Len(stack) < MaxDepth
        /\ stack' = Append(stack, OpFrame(op, prog, 1, FALSE))
        /\ last' = OpEvent("called", op, errorReportingEnabled)
        /\ UNCHANGED errorReportingEnabled
        /\ reportingUnchanged

\* the innermost operation executes its next statement; a call of Git::run
\* creates the process with the mode of that moment, and waits
OpStep ==
    /\ stack # <<>> /\ ~Top.waiting /\ Top.pc <= Len(Top.prog)
    /\ LET instr == Top.prog[Top.pc]
       IN  /\ errorReportingEnabled' = execute(instr, errorReportingEnabled)
           /\ stack' = Append(Pop, IF instr = "run"
                                   THEN OpFrame(Top.kind, Top.prog, Top.pc, TRUE)
                                   ELSE OpFrame(Top.kind, Top.prog, Top.pc + 1, FALSE))
           /\ last' = OpEvent(instr, Top.kind, errorReportingEnabled)
    /\ reportingUnchanged

\* the invocation of the innermost operation ends, Git::run returns
OpRunEnds ==
    /\ stack # <<>> /\ Top.waiting
    /\ stack' = Append(Pop, OpFrame(Top.kind, Top.prog, Top.pc + 1, FALSE))
    /\ last' = OpEvent("run ended", Top.kind, errorReportingEnabled)
    /\ UNCHANGED errorReportingEnabled
    /\ reportingUnchanged

\* the innermost operation returns
OpReturns ==
    /\ stack # <<>> /\ ~Top.waiting /\ Top.pc > Len(Top.prog)
    /\ stack' = Pop
    /\ last' = OpEvent("returned", Top.kind, errorReportingEnabled)
    /\ UNCHANGED errorReportingEnabled
    /\ reportingUnchanged

InitReporting ==
    /\ revsFiles = <<>>
    /\ cacheNeedsUpdate = FALSE
    /\ errorReportingEnabled = TRUE
    /\ otherFilesCount = 0
    /\ refsShaMap = LoadedRefs
    /\ last = OpEvent("none", "", TRUE)
    /\ tmpFiles = {}
    /\ SessionInit

NextReporting ==
    \/ OpCalled
    \/ OpStep
    \/ OpRunEnds
    \/ OpReturns

SpecReporting == InitReporting /\ [][NextReporting]_vars

(***************************************************************************)
(* Properties                                                              *)
(***************************************************************************)
\* the step is a call of op: it starts in the event loop and leaves op's record
Calls(op) == Idle /\ last'.op = op

\* the entry of cache `files` under key, as a pointer
Entry(files, key) == IF contains(files, key) THEN Ptr(files[key]) ELSE NULL

\* the call ran the tool and its last invocation failed
ToolFailed(call) == call.log # <<>> /\ ~call.log[Len(call.log)].ok

Loaded(sha) == sha # "" /\ sha \in DOMAIN Revs

\* the three kinds of getFiles requests that reach the cache or the tool
MergeAllRequest(args) ==
    /\ Loaded(args.sha) /\ Len(Revs[args.sha].parents) > 1
    /\ args.diffToSha = "" /\ args.allFiles

PairwiseRequest(args) ==
    /\ Loaded(args.sha) /\ Len(Revs[args.sha].parents) > 0
    /\ args.diffToSha # "" /\ args.sha # ZERO_SHA

OwnRequest(args) ==
    /\ Loaded(args.sha) /\ Len(Revs[args.sha].parents) > 0
    /\ args.diffToSha = "" /\ ~(args.allFiles /\ Len(Revs[args.sha].parents) > 1)

\* the keys of the commits' own file sets
CommitKeys == {ShaKey(sha) : sha \in DOMAIN Revs}

\* the queries of the File-State Cache
CacheQueries ==
    {"getFiles", "getWorkDirFiles", "isNothingToCommit", "isTreeModified", "isSameFiles",
     "runDiffTreeWithRenameDetection"}

WithoutC(cmd) == SelectSeq(cmd, LAMBDA w : w # "-C")

\* C1: runDiffTreeWithRenameDetection starts the tree diff with -C; it starts a
\* second invocation if and only if the first failed, and that one is the same
\* command without -C; it never starts a third; it returns success exactly when
\* the first invocation or the retry succeeded.
C1_RetryOnce ==
    last.op = "runDiffTreeWithRenameDetection" =>
        /\ Len(last.log) \in {1, 2}
        /\ last.log[1].cmd # last.args.runCmd
        /\ "-C" \in {last.log[1].cmd[i] : i \in DOMAIN last.log[1].cmd}
        /\ WithoutC(last.log[1].cmd) = last.args.runCmd
        /\ (Len(last.log) = 2) <=> ~last.log[1].ok
        /\ Len(last.log) = 2 => last.log[2].cmd = last.args.runCmd
        /\ last.ret.ok <=> (last.log[1].ok \/ (Len(last.log) = 2 /\ last.log[2].ok))

C1_Witness ==
    /\ last.op = "runDiffTreeWithRenameDetection"
    /\ Len(last.log) = 2 /\ ~last.log[1].ok /\ last.log[2].ok /\ last.ret.ok

\* what getFiles(sha) returns for a commit with parents is the entry under its key
C2_Returned ==
    (last.op = "getFiles" /\ OwnRequest(last.args) /\ last.args.sha # ZERO_SHA
        /\ last.ret # NULL)
    => Entry(revsFiles, ShaKey(last.args.sha)) = last.ret

\* an entry under a commit's key stays as it is, and serves getFiles(sha)
C2_Kept ==
    \A sha \in DOMAIN Revs \ {ZERO_SHA} :
        contains(revsFiles, ShaKey(sha)) =>
            /\ Entry(revsFiles', ShaKey(sha)) = Entry(revsFiles, ShaKey(sha))
            /\ (Calls("getFiles") /\ OwnRequest(last'.args) /\ last'.args.sha = sha)
               => (last'.ret = Entry(revsFiles, ShaKey(sha)) /\ last'.log = <<>>)

\* a getFiles whose tool invocation failed
C2_Failed ==
    (Calls("getFiles") /\ ToolFailed(last'))
    => (last'.ret = NULL /\ revsFiles' = revsFiles /\ cacheNeedsUpdate' = cacheNeedsUpdate)

\* C2: a file set that getFiles(sha), without diff target, has returned for a
\* loaded commit with parents (not the working directory) is in the cache under
\* the commit's key; an entry under a commit's key is never replaced or removed,
\* by any operation; while it is there, getFiles(sha) returns it and starts no
\* invocation; and a getFiles whose tool invocation failed returns absent and
\* leaves the cache as it was.
C2_PermanentCache == [](C2_Returned) /\ [][C2_Kept /\ C2_Failed]_vars

C2_Witness ==
    /\ last.op = "getFiles" /\ OwnRequest(last.args) /\ last.args.sha = "b"
    /\ last.ret # NULL /\ last.log = <<>>
    /\ contains(revsFiles, ShaKey(CUSTOM_SHA)) /\ contains(revsFiles, AllMergeKey("m"))

\* the key of a combined file set is no commit's own key, nor the pairwise key
C3_KeysDiffer ==
    \A m \in DOMAIN Revs : \A sha \in (DOMAIN Revs) \cup Shas \cup {CUSTOM_SHA} :
        AllMergeKey(m) # ShaKey(sha)

\* a request for the combined file set of a merge commit
C3_Step ==
    (Calls("getFiles") /\ MergeAllRequest(last'.args)) =>
        LET k == AllMergeKey(last'.args.sha)
        IN  /\ \A key \in DOMAIN revsFiles \ {k} :
                  Entry(revsFiles', key) = Entry(revsFiles, key)
            /\ DOMAIN revsFiles' \subseteq (DOMAIN revsFiles) \cup {k}
            /\ contains(revsFiles, k) =>
                  (last'.ret = Entry(revsFiles, k) /\ last'.log = <<>>
                     /\ revsFiles' = revsFiles)
            /\ ~contains(revsFiles, k) => last'.log # <<>>
            /\ last'.ret # NULL => Entry(revsFiles', k) = last'.ret
            /\ k # ShaKey(last'.args.sha)

\* C3: the key of a merge commit's combined file set differs from every commit's
\* own key and from the pairwise key; getFiles(M, no diff target, allFiles) changes
\* no entry but the one under that key, is served from that entry without an
\* invocation when it is there, runs the tool when it is not (whatever is cached
\* under M's own key), and leaves what it returns under that key.
C3_MergeKey == [](C3_KeysDiffer) /\ [][C3_Step]_vars

C3_Witness ==
    /\ last.op = "getFiles" /\ MergeAllRequest(last.args)
    /\ last.ret # NULL /\ last.log = <<>>
    /\ contains(revsFiles, ShaKey(last.args.sha))
    /\ Entry(revsFiles, ShaKey(last.args.sha)) # last.ret

\* the keys that are not derived from a commit
C4_OneKey ==
    LET other == {k \in DOMAIN revsFiles :
                    k \notin CommitKeys /\ k \notin {AllMergeKey(sha) : sha \in DOMAIN Revs}}
    IN  other \subseteq {ShaKey(CUSTOM_SHA)} /\ Cardinality(other) <= 1

\* a pairwise request, and any change of the entry under CUSTOM_SHA
C4_Step ==
    LET k == ShaKey(CUSTOM_SHA)
    IN  /\ (Calls("getFiles") /\ PairwiseRequest(last'.args)) =>
              /\ last'.log # <<>>
              /\ \A key \in DOMAIN revsFiles \ {k} :
                    Entry(revsFiles', key) = Entry(revsFiles, key)
              /\ DOMAIN revsFiles' \subseteq (DOMAIN revsFiles) \cup {k}
              /\ ToolFailed(last') => (last'.ret = NULL /\ revsFiles' = revsFiles)
              /\ ~ToolFailed(last') =>
                    /\ last'.ret = Ptr(parseDiffFormat(last'.log[Len(last'.log)].out))
                    /\ Entry(revsFiles', k) = last'.ret
        /\ Entry(revsFiles', k) # Entry(revsFiles, k) =>
              (Calls("getFiles") /\ PairwiseRequest(last'.args) /\ last'.ret # NULL)

\* C4: the only cache key that is not derived from a commit is CUSTOM_SHA, so at
\* most one pairwise file set is cached; a pairwise request always runs the tool,
\* changes no other entry, and when it succeeds leaves the parsed output of its
\* last invocation under CUSTOM_SHA and returns it; nothing else changes that
\* entry, so it is the result of the latest pairwise request that succeeded.
C4_PairwiseKey == [](C4_OneKey) /\ [][C4_Step]_vars

C4_Witness ==
    /\ last.op = "getFiles" /\ PairwiseRequest(last.args) /\ last.args.sha = "b"
    /\ Len(last.log) = 2 /\ last.ret # NULL
    /\ Entry(revsFiles, ShaKey(CUSTOM_SHA)) = last.ret
    /\ contains(revsFiles, ShaKey("b")) /\ Entry(revsFiles, ShaKey("b")) # last.ret

\* C5 as stated: a getFiles request for the working directory identifier that
\* returns a file set has computed it with the tool.
C5_Recomputed ==
    (last.op = "getFiles" /\ last.args.sha = ZERO_SHA /\ last.ret # NULL)
    => last.log # <<>>

\* a request for the working directory's file set, a call of getWorkDirFiles,
\* and any change of the entry under ZERO_SHA
C5_Step ==
    /\ (Calls("getFiles") /\ last'.args.sha = ZERO_SHA) =>
          /\ last'.log = <<>>
          /\ last'.ret = Entry(revsFiles, ShaKey(ZERO_SHA))
          /\ revsFiles' = revsFiles /\ cacheNeedsUpdate' = cacheNeedsUpdate
    /\ Calls("getWorkDirFiles") =>
          (last'.log = <<>> /\ revsFiles' = revsFiles /\ cacheNeedsUpdate' = cacheNeedsUpdate)
    /\ Entry(revsFiles', ShaKey(ZERO_SHA)) # Entry(revsFiles, ShaKey(ZERO_SHA)) =>
          last'.op \notin CacheQueries

\* C5 as amended: a getFiles request for the working directory identifier, with
\* or without a diff target, starts no invocation and changes nothing: it returns
\* the entry cached under ZERO_SHA, or absent when there is none; getWorkDirFiles
\* reads that entry the same way, and no query of the cache writes it.
C5_ServedFromCache == [][C5_Step]_vars

C5_Witness ==
    /\ last.op = "getFiles" /\ last.args.sha = ZERO_SHA /\ last.args.diffToSha # ""
    /\ last.ret # NULL /\ last.log = <<>>

\* the answer of isTreeModified that the cache gives without the tool
TreeModifiedCached(sha) ==
    IF contains(revsFiles, ShaKey(sha)) THEN anyNotModified(revsFiles[ShaKey(sha)]) ELSE TRUE

SoleParent(x, y) == Loaded(y) /\ Revs[y].parents = <<x>>

\* C6 as stated: when one tree is the only parent of the other, isSameFiles
\* returns the negation of isTreeModified of the child and starts no invocation.
C6_FastPath ==
    (last.op = "isSameFiles"
        /\ \E y \in {last.args.tree1Sha, last.args.tree2Sha} :
              \E x \in {last.args.tree1Sha, last.args.tree2Sha} \ {y} : SoleParent(x, y))
    => LET y == CHOOSE y \in {last.args.tree1Sha, last.args.tree2Sha} :
                   \E x \in {last.args.tree1Sha, last.args.tree2Sha} \ {y} : SoleParent(x, y)
       IN  last.ret = ~TreeModifiedCached(y) /\ last.log = <<>>

\* C7 as stated: isTreeModified, isSameFiles and isNothingToCommit leave the
\* cache and cacheNeedsUpdate as they were.
C7_ReadOnly ==
    [][(Calls("isTreeModified") \/ Calls("isSameFiles") \/ Calls("isNothingToCommit"))
        => (revsFiles' = revsFiles /\ cacheNeedsUpdate' = cacheNeedsUpdate)]_vars

\* the commit whose own file set a call of isTreeModified or isSameFiles looks at
TreeLookedAt(call) ==
    IF call.op = "isTreeModified" THEN {call.args.sha}
    ELSE IF isParentOf(call.args.tree1Sha, call.args.tree2Sha) THEN {call.args.tree2Sha}
    ELSE IF isParentOf(call.args.tree2Sha, call.args.tree1Sha) THEN {call.args.tree1Sha}
    ELSE {}

\* a call of one of the three predicates
C7_Step ==
    /\ Calls("isNothingToCommit") =>
          (revsFiles' = revsFiles /\ cacheNeedsUpdate' = cacheNeedsUpdate /\ last'.log = <<>>)
    /\ (Calls("isTreeModified") \/ Calls("isSameFiles")) =>
          /\ \A key \in DOMAIN revsFiles : Entry(revsFiles', key) = Entry(revsFiles, key)
          /\ cacheNeedsUpdate => cacheNeedsUpdate'
          /\ \A sha \in TreeLookedAt(last') :
                (contains(revsFiles, ShaKey(sha)) \/ ~Loaded(sha) \/ sha = ZERO_SHA
                    \/ Revs[sha].parents = <<>>)
                => last'.log = <<>>
          /\ (last'.log = <<>> \/ ToolFailed(last') \/ TreeLookedAt(last') = {}) =>
                (revsFiles' = revsFiles /\ cacheNeedsUpdate' = cacheNeedsUpdate)
          /\ (last'.log # <<>> /\ ~ToolFailed(last') /\ TreeLookedAt(last') # {}) =>
                /\ revsFiles' = hashInsert(revsFiles, ShaKey(Deref(TreeLookedAt(last'))),
                                           parseDiffFormat(last'.log[Len(last'.log)].out))
                /\ ~contains(revsFiles, ShaKey(Deref(TreeLookedAt(last'))))
                /\ cacheNeedsUpdate'

\* C7 as amended: isNothingToCommit changes nothing.  isTreeModified and
\* isSameFiles never replace or remove an entry and never reset
\* cacheNeedsUpdate; they change nothing when they start no invocation (the
\* commit looked at is cached, not loaded, without parents or the working
\* directory), when the tool fails, or when isSameFiles compares two trees with
\* the tool; otherwise they add the one entry of the commit looked at, the
\* parsed output of the tool, and set cacheNeedsUpdate.
C7_LazyFill == [][C7_Step]_vars

C7_Witness ==
    /\ last.op = "isTreeModified" /\ last.args.sha = "m"
    /\ last.log # <<>> /\ ~ToolFailed(last) /\ last.ret = FALSE
    /\ cacheNeedsUpdate /\ contains(revsFiles, ShaKey("m"))

StoreQueries ==
    {"revLookup", "getChilds", "getLaneParent", "getShortLog", "getDescendantBranches",
     "getNearTags", "getDesc", "getFiles"}

\* the store a query looks the identifier up in
QueryStore(call) ==
    IF call.op \in {"revLookup", "getDesc"} THEN StoreOf(call.args.fh) ELSE DOMAIN Revs

\* the empty or absent result of a query
EmptyResult(call) ==
    CASE call.op \in {"revLookup", "getFiles"} -> call.ret = NULL
      [] call.op \in {"getLaneParent", "getShortLog"} -> call.ret = ""
      [] OTHER -> call.ret = <<>>

\* what a query returns for an identifier that is not in the store
C8_Result ==
    (last.op \in StoreQueries /\ last.args.sha \notin QueryStore(last))
    => (EmptyResult(last) /\ last.log = <<>>)

\* what a query changes for an identifier that is not in the store
C8_Frame ==
    (Idle /\ last'.op \in StoreQueries /\ last'.args.sha \notin QueryStore(last'))
    => UNCHANGED <<revsFiles, cacheNeedsUpdate, errorReportingEnabled, otherFilesCount,
                   refsShaMap>>

\* C8: for an identifier that is not in the store, revLookup and getFiles return
\* absent and getChilds, getLaneParent, getShortLog, getDescendantBranches,
\* getNearTags and getDesc return the empty result; they start no invocation
\* and change no state.
C8_NotLoaded == [](C8_Result) /\ [][C8_Frame]_vars

C8_Witness ==
    /\ last.op = "getDesc" /\ last.args.sha = "m" /\ last.args.fh
    /\ last.ret = <<>> /\ last.log = <<>>
    /\ revsFiles # <<>>

\* the identifiers whose entry carries the name under the kind
Holders(refName, type) ==
    {refsShaMap[i].sha : i \in
        {j \in DOMAIN refsShaMap :
            listContains(getRefName(refsShaMap[j].sha, type), refName)}}

\* C9: a name that exactly one identifier carries as a tag (branch, remote
\* branch, other ref) is resolved by getRefSha, asked for that kind, to that
\* identifier, without an invocation.
C9_Resolves ==
    (last.op = "getRefSha" /\ last.args.type \in NameKinds)
    => \A sha \in RefShas :
          Holders(last.args.refName, last.args.type) = {sha}
          => (last.ret = sha /\ last.log = <<>>)

C9_Witness ==
    /\ last.op = "getRefSha" /\ last.args.type = TAG /\ last.args.refName = "v1"
    /\ last.args.askGit /\ last.ret = "b" /\ last.log = <<>>
    /\ Len(refsShaMap) = 2 /\ refsShaMap[1].sha = "m"
    /\ listContains(refsShaMap[1].branches, "v1")

\* the name is a tag, branch, remote branch, other ref or patch of some entry
IsNameOfAnEntry(nm) ==
    \E i \in DOMAIN refsShaMap :
        LET rf == refsShaMap[i]
        IN  \/ listContains(rf.tags, nm) \/ listContains(rf.branches, nm)
            \/ listContains(rf.remoteBranches, nm) \/ listContains(rf.refs, nm)
            \/ (rf.type \cap {APPLIED, UN_APPLIED} # {} /\ rf.stgitPatch = nm)

\* C10 as stated: for a string that is the name of no entry, the empty string
\* included, getRefSha without askGit returns the empty result for every kind,
\* and starts no invocation.
C10_NotFound ==
    (last.op = "getRefSha" /\ ~last.args.askGit /\ ~IsNameOfAnEntry(last.args.refName))
    => (last.ret = "" /\ last.log = <<>>)

\* what a call can change, the call record apart
AllButLast ==
    <<revsFiles, cacheNeedsUpdate, errorReportingEnabled, otherFilesCount, refsShaMap, tmpFiles,
      setRepositoryBusy, curDir, workDir, repoDir, stack, procs, nextId, handles, exExiting,
      globalActions, commitEnabled, statusMsg, initState, touchedReleased, window>>

\* the step leaves the record of another call than the one before
NewCall == last'.op # last.op \/ last'.args # last.args \/ last'.ret # last.ret

\* the calls of Git::init that have not returned
InitsInFlight == {i \in DOMAIN stack : stack[i].kind = "setRepository"}

\* at most one Git::init is in flight, and the guard is set while it is
C11_OneInit == Cardinality(InitsInFlight) <= 1 /\ (InInit => setRepositoryBusy)

\* a setRepository call made while another is inside Git::init
C11_Step ==
    (InInit /\ last'.op = "setRepository" /\ NewCall)
    => (last'.ret = "rejected" /\ UNCHANGED AllButLast)

\* C11: while a setRepository call is in progress, every further setRepository
\* call, the ones made from the events processed in Git::init included, returns
\* at once: it stops nothing, clears nothing, calls no init and shows no
\* message; so at most one Git::init is in flight.
C11_SingleInit == [](C11_OneInit) /\ [][C11_Step]_vars

C11_Witness ==
    /\ InInit /\ Top.kind = "setRepository" /\ Top.loading
    /\ last.op = "setRepository" /\ last.ret = "rejected" /\ last.args.newDir # curDir

\* C12 as stated: every setRepository call that passed the guard has released
\* it when it has ended, normally or unwound by exExiting: the guard is set
\* only while a call is in progress.
C12_GuardReleased == setRepositoryBusy => InInit

\* C13 as stated: at the moment Git::init starts for the new directory, no
\* invocation started in the repository that was open before is still running.
C13_OldStopped ==
    (last.op = "setRepository" /\ last.ret = "started")
    => \A id \in DOMAIN procs : procs[id].repo = repoDir

\* C14 as stated: every invocation executes in the directory of the repository
\* that is open when it starts, the invocation of formatPatch with a remote
\* directory and the ones started while it runs included.
C14_WorkDirOfRepository ==
    \A id \in DOMAIN procs : procs[id].dir = procs[id].repo

\* C16: when setRepository returns after a Git::init that failed, the global
\* actions and the commit action are disabled and the status bar shows 'Not a
\* git archive'; and the global actions are enabled only if the most recent
\* Git::init succeeded.
C16_NotARepository ==
    /\ (last.op = "setRepositoryEnd" /\ last.ret = "failed")
       => (~globalActions /\ ~commitEnabled /\ statusMsg = "Not a git archive")
    /\ globalActions => initState = "ok"

C16_Witness ==
    /\ last.op = "setRepositoryEnd" /\ last.ret = "failed" /\ curDir = "r2"
    /\ \E id \in DOMAIN procs : procs[id].repo = "r1" /\ procs[id].kind = "loader"
    /\ statusMsg = "Not a git archive" /\ ~globalActions

\* C17 as stated: cancelProcess and cancelDataLoading on a process that is
\* deleted or was cancelled before change no state and touch no deleted object.
C17_CancelIdempotent ==
    [][(last'.op \in {"cancelProcess", "cancelDataLoading"}
            /\ last'.ret \in {"deleted", "cancelled"} /\ NewCall)
        => UNCHANGED AllButLast]_vars

\* C18 as stated: the reporting mode of an invocation is the one its own caller
\* wants, whatever other operation is running with the error reporting off.
C18_OwnReportingMode ==
    \A id \in DOMAIN procs : procs[id].report = procs[id].own

\* the invocation that failed in a call, if one did
FailedRuns(call) == {i \in DOMAIN call.log : ~call.log[i].ok /\ call.log[i].report}

\* C15: when commitFiles has written its message file, or stgCommit its patch
\* file, the file is removed when the call returns, whichever invocation of
\* the call failed, or none.
C15_TempFileRemoved ==
    (last.op \in {"commitFiles", "stgCommit"} /\ Deref(last.ret).wrote)
    => (MsgFile \notin tmpFiles /\ PatchFile \notin tmpFiles)

C15_Witness ==
    /\ last.op = "stgCommit" /\ Deref(last.ret).wrote /\ ~Deref(last.ret).ok
    /\ \E i \in FailedRuns(last) : last.log[i].cmd = <<"stg", "fold", PatchFile>>
    /\ last.log[Len(last.log)].cmd = <<"git", "stash", "pop">>
    /\ tmpFiles = {}

\* C19: removeExtraFileInfo gives the destination name of a row
\* 'old --> new (NN%)', leaves a name without ' --> ' as it is, and gives the
\* same result applied twice as applied once.
C19_DestinationName ==
    last.op = "removeExtraFileInfo"
    => /\ last.args.form = "rename" => Deref(last.ret) = last.args.new
       /\ ~strContains(last.args.rowName, Arrow) => Deref(last.ret) = last.args.rowName
       /\ removeExtraFileInfo(Deref(last.ret)) = Deref(last.ret)

\* the names a list in loading order is made of, each with the position of its
\* revision: <<identifier, kind, name, orderIdx>>
LoadedNames(map, revs, mask) ==
    UNION { UNION { {<<map[i].sha, k[1], k[2][j], revs[map[i].sha]>> : j \in DOMAIN k[2]} :
                    k \in { <<TAG, map[i].tags>>, <<BRANCH, map[i].branches>>,
                            <<RMT_BRANCH, map[i].remoteBranches>>, <<REF, map[i].refs>> }
                            \cap (mask \X Seq(RefNames)) } :
            i \in {j \in DOMAIN map : map[j].sha \in DOMAIN revs} }

LoadedShas(shaList, revs) ==
    {<<shaList[i], "sha", shaList[i], revs[shaList[i]]>> :
        i \in {j \in DOMAIN shaList : shaList[j] \in DOMAIN revs}}

\* list holds exactly the names of expected, in non-decreasing order of position
InLoadingOrder(list, expected) ==
    /\ Len(list) = Cardinality(expected)
    /\ \E f \in [DOMAIN list -> expected] :
        /\ \A i \in DOMAIN list, j \in DOMAIN list : i # j => f[i] # f[j]
        /\ \A i \in DOMAIN list : list[i] = chars(f[i][3])
        /\ \A i \in DOMAIN list, j \in DOMAIN list : i < j => f[i][4] <= f[j][4]

\* C20: getAllRefNames with onlyLoaded, and sortShaListByIndex, return exactly
\* the names whose identifier is a loaded revision, in non-decreasing order of the
\* revisions' orderIdx, whatever the orderIdx values are.
C20_LoadingOrder ==
    /\ (last.op = "getAllRefNames" /\ last.args.onlyLoaded)
       => InLoadingOrder(Deref(last.ret),
                         LoadedNames(refsShaMap, last.args.revs, maskOf(last.args.type)))
    /\ last.op = "sortShaListByIndex"
       => InLoadingOrder(Deref(last.ret), LoadedShas(last.args.shaList, last.args.revs))

\* the keys of the commits' file sets in the cache: not the working directory's,
\* not the pairwise diff's
CachedCommitKeys == (DOMAIN revsFiles) \ {ShaKey(ZERO_SHA), ShaKey(CUSTOM_SHA)}

\* an entry of a commit stays as it is, and a call returns the entry of the cache
C21_Step ==
    /\ \A key \in CachedCommitKeys : contains(revsFiles', key) /\ revsFiles'[key] = revsFiles[key]
    /\ (last'.op = "getFiles" /\ last'.ret # NULL)
       => \E key \in DOMAIN revsFiles' : key[Len(key)] = last'.args.sha
                                         /\ last'.ret = Ptr(revsFiles'[key])

\* C21: when getFiles (no diff target) is entered again for a commit while its
\* invocation runs, the commit's entry is inserted once and never replaced, and
\* each caller is returned the entry of the cache.
C21_InsertedOnce == [][C21_Step]_vars


\* the invocations of a call that are cmd applied to some files
RunsOf(call, cmd) ==
    {i \in DOMAIN call.log : Len(call.log[i].cmd) >= Len(cmd)
                             /\ SubSeq(call.log[i].cmd, 1, Len(cmd)) = cmd}

\* file nm is put into the index, or taken from it as deleted, by invocation i
PutBack(call, i, nm) ==
    /\ i \in RunsOf(call, <<"git", "add">>) \cup RunsOf(call, <<"git", "rm", "--cached">>)
    /\ call.log[i].ok
    /\ listContains(call.log[i].cmd, nm)

\* C22: when commitFiles has taken the files not selected out of the index (git
\* reset), it has put each of them back when it returns, whether it succeeded or
\* failed; and the commit runs only after the invocations before it succeeded.
C22_IndexRestored ==
    last.op = "commitFiles"
    => /\ \A i \in RunsOf(last, <<"git", "reset", "--">>) :
            last.log[i].ok
            => \A k \in 4..Len(last.log[i].cmd) :
                   \E j \in DOMAIN last.log : j > i /\ PutBack(last, j, last.log[i].cmd[k])
       /\ \A i \in RunsOf(last, <<"git", "commit">>) :
            \A j \in 1..(i - 1) : last.log[j].ok


\* the revisions of a drop whose patch was applied, and the commits it undid
AppliedRevs(call) ==
    Cardinality(RunsOf(call, <<"git", "am">>) \cup RunsOf(call, <<"stg", "import">>)
                \cup RunsOf(call, <<"stg", "fold">>))
    - Cardinality({i \in DOMAIN call.log : ~call.log[i].ok
                                           /\ call.log[i].cmd[2] \in {"am", "import", "fold"}})

ResetDepths(call) == {call.log[i].cmd[5] : i \in RunsOf(call, <<"git", "reset", "--soft">>)}

\* C23: with 'working dir only', resetCommits undoes as many commits as patches
\* were applied, wherever in the list the first failure is; nothing is reset
\* when no patch was applied.
C23_ResetWhatWasApplied ==
    (last.op = "revisionsDropped" /\ last.args.workDirOnly)
    => ResetDepths(last) = (IF AppliedRevs(last) = 0 THEN {} ELSE {AppliedRevs(last)})

\* C24: the status message is cleared only when every revision was imported;
\* when a revision fails the status shows 'Failed to import revision' and no
\* later revision is imported.
C24_FailureShown ==
    last.op = "revisionsDropped"
    => /\ statusMsg = "" => AppliedRevs(last) = last.args.count
       /\ last.args.failRev # 0
          => /\ statusMsg = "Failed to import revision"
             /\ Deref(last.ret).shown = last.args.failRev
             /\ \A i \in RunsOf(last, <<"git", "format-patch">>) :
                    last.log[i].cmd[3] <= last.args.failRev


\* the 'git stash' and the 'git stash pop' invocations of a call
Stashes(call) == RunsOf(call, <<"git", "stash">>) \ RunsOf(call, <<"git", "stash", "pop">>)

StashPops(call) == RunsOf(call, <<"git", "stash", "pop">>)

\* a file of the working directory is not among the selected ones
PartialSelection(args) ==
    \E i \in DOMAIN args.wd : ~listContains(args.selFiles, args.wd[i].name)

\* C25: in stgCommit a 'git stash' that was run is followed by exactly one 'git
\* stash pop' before the call returns, whether the call succeeds or fails;
\* without a partial selection neither is run.
C25_StashPopped ==
    last.op = "stgCommit"
    => /\ Cardinality(Stashes(last)) <= 1
       /\ Cardinality(StashPops(last)) = Cardinality(Stashes(last))
       /\ \A i \in Stashes(last) : \A j \in StashPops(last) : i < j
       /\ ~PartialSelection(last.args) => Stashes(last) = {} /\ StashPops(last) = {}

C25_Witness ==
    /\ last.op = "stgCommit" /\ ~Deref(last.ret).ok
    /\ \E i \in FailedRuns(last) : last.log[i].cmd[2] = "import"
    /\ Cardinality(Stashes(last)) = 1 /\ Cardinality(StashPops(last)) = 1


C27_KindRespected ==
    (/\ last.op = "getRefSha" /\ ~last.args.askGit
     /\ last.args.type # ANY_REF /\ last.ret # "")
    => /\ checkRef(last.ret, maskOf(last.args.type)) # {}
       /\ listContains(getRefName(last.ret, last.args.type), last.args.refName)

\* a close event deletes the views and is accepted
TearDown == window'.closed /\ ~window.closed

\* C28: the views are destroyed and the close accepted only when Git has no
\* child process left; while one exists the close event is ignored and retried
\* by the timer, so that the window is never torn down earlier and is closed
\* eventually once the processes have ended.
C28_ClosedWhenProcessesEnded ==
    /\ [][TearDown => gitChildren = {}]_vars
    /\ [](window.closed => (~window.rv /\ ~window.timer))
    /\ []((window.hidden /\ ~window.closed) => (window.rv /\ window.timer))
    /\ (window.hidden /\ gitChildren = {}) ~> (window.closed \/ gitChildren # {})

C28_Witness ==
    /\ window.closed /\ window.ignored /\ ~window.rv
    /\ gitChildren = {}

====
